---- MODULE Spec2Model ----
(***************************************************************************)
(* A model of the Notty card game's deck (src/notty/src/visual/deck.py)    *)
(* and action board (src/notty/src/visual/action_board.py).                *)
(*                                                                         *)
(* Cards are values <<color, number>>; two copies of a card are told apart *)
(* only by their position in a list.  The deck is the single Python list   *)
(* VisualDeck.cards, whose last element is the top.  random.shuffle is a   *)
(* choice among all the orders of the list.                                *)
(***************************************************************************)
EXTENDS Integers, Sequences, FiniteSets, Bags, TLC

VARIABLES
    colors, numbers,        \* how many colors and numbers the cards have
    cards,                  \* VisualDeck.cards
    hands,                  \* the cards each player's hand holds
    last,                   \* the last call on the deck and its result
    discard,                \* how many cards of the deck are returned cards
    num_players,            \* len(game.players)
    current_player_index,   \* whose turn it is
    possible,               \* the actions game.action_is_possible accepts
    enabled,                \* ActionButton.enabled of every button
    click,                  \* the last call on the action board and its result
    players,                \* game.players, each a name and an is_human flag
    display_order,          \* what get_player_display_order returned
    state,                  \* AwaitingDeal, InProgress or Finished
    winner,                 \* the name of the player who won
    discard_area,           \* the discarded cards of the game, the top one last
    selector,               \* the fields of the selector dialog that is open
    dialog,                 \* the fields of the WinnerDisplay that is open
    visual,                 \* x, y, target_x and target_y of a Visual
    event,                  \* the last event a dialog's loop handled
    result,                 \* what the dialog's show() returned
    pc,                     \* where get_players is
    selected_player         \* get_players' selected_player

deckVars == <<colors, numbers, cards, hands, last>>

gameVars == <<num_players, current_player_index, possible>>

boardVars == <<num_players, current_player_index, possible, enabled, click>>

setupVars == <<players, display_order, state, winner, discard_area>>

uiVars == <<selector, dialog, visual, event, result, pc, selected_player>>

vars == <<colors, numbers, cards, hands, last, discard,
          num_players, current_player_index, possible, enabled, click,
          players, display_order, state, winner, discard_area,
          selector, dialog, visual, event, result, pc, selected_player>>

\* No game set up, no dialog open, nothing animated.
IdleSetup ==
    /\ players = <<>>
    /\ display_order = <<>>
    /\ state = "AwaitingDeal"
    /\ winner = "None"
    /\ discard_area = <<>>

IdleUi ==
    /\ selector = [kind |-> "none"]
    /\ dialog = [kind |-> "none"]
    /\ visual = [kind |-> "none"]
    /\ event = [type |-> "none"]
    /\ result = [kind |-> "none"]
    /\ pc = "idle"
    /\ selected_player = "None"

\* ------------------------------------------------------------------------
\* Bounds of the model.

\* The most color x number combinations a deck is built from.
MaxKinds == 2

\* The largest count passed to draw_cards.
MaxCount == 3

\* The place and size of the action board on the screen.
ACTION_BOARD_X == 0

ACTION_BOARD_Y == 0

ACTION_BOARD_WIDTH == 31

ACTION_BOARD_HEIGHT == 87

\* The size of the window the dialogs are laid out in.
APP_WIDTH == 1200

APP_HEIGHT == 800

\* How many player names there are to choose from.
NumNames == 4

\* The most cards a CardsSelector is opened with.
MaxCards == 2

\* The speed of the movement animation, in pixels a frame.
ANIMATION_SPEED == 5

\* Visual elements are placed and moved on the points 0..GridMax squared.
GridMax == 12

\* The largest max_selections a single button is toggled with.
MaxSel == 2

\* How many times in a row a single button is toggled.
MaxToggles == 4

\* The largest deck that is given back the cards just drawn from it.
MaxReturnSize == 4

\* The players that own a hand (one human, one computer).
Players == {"human", "computer"}

\* ------------------------------------------------------------------------
\* Program constants.

NUM_DUPLICATES == 2

\* The colors and numbers of the game's cards, 5 x 9 x 2 = 90 cards.
NumColors == 5

NumNumbers == 9

\* ------------------------------------------------------------------------
\* Helpers on sequences and bags.

Reverse(s) == [i \in 1..Len(s) |-> s[Len(s) + 1 - i]]

Min(a, b) == IF a <= b THEN a ELSE b

RECURSIVE SeqToBag(_)
SeqToBag(s) ==
    IF s = <<>> THEN EmptyBag ELSE SetToBag({Head(s)}) (+) SeqToBag(Tail(s))

CardLess(a, b) == a[1] < b[1] \/ (a[1] = b[1] /\ a[2] < b[2])

\* The cards of a bag as a list, in the order of CardLess.
RECURSIVE BagToSeq(_)
BagToSeq(b) ==
    IF BagToSet(b) = {} THEN <<>>
    ELSE LET c == CHOOSE x \in BagToSet(b) :
                      \A y \in BagToSet(b) : x = y \/ CardLess(x, y)
         IN <<c>> \o BagToSeq(b (-) SetToBag({c}))

\* The bags contained in a bag.
SubBags(b) ==
    LET dom == BagToSet(b)
        all == [dom -> 0..NUM_DUPLICATES]
    IN { [c \in {d \in dom : f[d] > 0} |-> f[c]] :
            f \in {g \in all : \A c \in dom : g[c] <= b[c]} }

\* ------------------------------------------------------------------------
\* VisualDeck.

\* random.shuffle(self.cards): every order of the list is a possible outcome.
InsertAt(s, i, x) == SubSeq(s, 1, i - 1) \o <<x>> \o SubSeq(s, i, Len(s))

RECURSIVE Shuffle(_)
Shuffle(cs) ==
    IF cs = <<>> THEN {<<>>}
    ELSE LET n == Len(cs)
         IN { InsertAt(s, i, cs[n]) : s \in Shuffle(SubSeq(cs, 1, n - 1)), i \in 1..n }

\* A deck that never reports itself empty.
is_empty_never(cs) == FALSE

is_empty(cs) == Len(cs) = 0

size(cs) == Len(cs)

\* add_card: append, then shuffle the whole deck.
add_card(cs, card) == Shuffle(Append(cs, card))

\* add_cards that skips the first card of the list: `for card in cards[1:]`.
RECURSIVE add_cards_rest(_, _)
add_cards_rest(S, list) ==
    IF list = <<>> THEN S
    ELSE add_cards_rest(UNION {add_card(cs, Head(list)) : cs \in S}, Tail(list))

add_cards_skip(S, list) ==
    IF list = <<>> THEN S ELSE add_cards_rest(S, Tail(list))

\* add_cards that leaves its loop after the first card.
add_cards_once(S, list) ==
    IF list = <<>> THEN S
    ELSE UNION {add_card(cs, Head(list)) : cs \in S}

\* add_cards: add_card for each card of the list, in order.  S is the set of
\* decks the calls so far can have produced.
RECURSIVE add_cards(_, _)
add_cards(S, list) ==
    IF list = <<>> THEN S
    ELSE add_cards(UNION {add_card(cs, Head(list)) : cs \in S}, Tail(list))

\* draw_card that returns the top card without removing it.
draw_card_peek(cs) ==
    IF Len(cs) = 0
    THEN [raised |-> TRUE, cards |-> cs, card |-> <<>>]
    ELSE [raised |-> FALSE, cards |-> cs, card |-> <<cs[Len(cs)]>>]

\* draw_card that pops the first element, pop(0), instead of the last.
draw_card_bottom(cs) ==
    IF Len(cs) = 0
    THEN [raised |-> TRUE, cards |-> cs, card |-> <<>>]
    ELSE [raised |-> FALSE, cards |-> Tail(cs), card |-> <<Head(cs)>>]

\* draw_card that returns nothing on an empty deck instead of raising.
draw_card_silent(cs) ==
    IF Len(cs) = 0
    THEN [raised |-> FALSE, cards |-> cs, card |-> <<>>]
    ELSE [raised |-> FALSE, cards |-> SubSeq(cs, 1, Len(cs) - 1),
          card |-> <<cs[Len(cs)]>>]

\* draw_card: ValueError on an empty deck, else pop the last element.
draw_card(cs) ==
    IF Len(cs) = 0
    THEN [raised |-> TRUE, cards |-> cs, card |-> <<>>]
    ELSE [raised |-> FALSE, cards |-> SubSeq(cs, 1, Len(cs) - 1),
          card |-> <<cs[Len(cs)]>>]

\* draw_cards: the loop `for _ in range(count)`, i is the iteration number.
RECURSIVE draw_cards_loop(_, _, _, _)
draw_cards_loop(cs, drawn, i, count) ==
    IF i >= count THEN [raised |-> FALSE, cards |-> cs, drawn |-> drawn]
    ELSE IF is_empty(cs) THEN [raised |-> FALSE, cards |-> cs, drawn |-> drawn]
    ELSE LET r == draw_card(cs)
         IN IF r.raised
            THEN [raised |-> TRUE, cards |-> r.cards, drawn |-> drawn]
            ELSE draw_cards_loop(r.cards, drawn \o r.card, i + 1, count)

\* draw_cards whose loop runs once more: range(count + 1).
draw_cards_extra(cs, count) == draw_cards_loop(cs, <<>>, 0, count + 1)

\* draw_cards that returns from inside its loop, after the first card.
draw_cards_once(cs, count) == draw_cards_loop(cs, <<>>, 0, Min(count, 1))

draw_cards(cs, count) == draw_cards_loop(cs, <<>>, 0, count)

\* The innermost loop of _initialize_deck running once less:
\* range(NUM_DUPLICATES - 1).
RECURSIVE duplicates_loop_short(_, _, _)
duplicates_loop_short(c, n, d) ==
    IF d > NUM_DUPLICATES - 1 THEN <<>>
    ELSE <<(<<c, n>>)>> \o duplicates_loop_short(c, n, d + 1)

\* The three loops of _initialize_deck, innermost first: the cards they
\* create, in the order of creation.
RECURSIVE duplicates_loop(_, _, _)
duplicates_loop(c, n, d) ==
    IF d > NUM_DUPLICATES THEN <<>>
    ELSE <<(<<c, n>>)>> \o duplicates_loop(c, n, d + 1)

RECURSIVE numbers_loop(_, _, _)
numbers_loop(c, nums, n) ==
    IF n > nums THEN <<>>
    ELSE duplicates_loop(c, n, 1) \o numbers_loop(c, nums, n + 1)

RECURSIVE colors_loop(_, _, _)
colors_loop(cols, nums, c) ==
    IF c > cols THEN <<>>
    ELSE numbers_loop(c, nums, 1) \o colors_loop(cols, nums, c + 1)

initial_cards(cols, nums) == colors_loop(cols, nums, 1)

\* _initialize_deck: self.cards = [], then add_card for every created card.
RECURSIVE initialize_loop(_, _)
initialize_loop(S, list) ==
    IF list = <<>> THEN S
    ELSE initialize_loop(UNION {add_card(cs, Head(list)) : cs \in S}, Tail(list))

_initialize_deck(cols, nums) ==
    initialize_loop({<<>>}, initial_cards(cols, nums))

\* ------------------------------------------------------------------------
\* The deck and the hands that draw from it and return cards to it.

AllCards == {<<c, n>> : c \in 1..colors, n \in 1..numbers}

deck_total_size == colors * numbers * NUM_DUPLICATES

\* Every card of the deck, NUM_DUPLICATES times.
FullBag == [card \in AllCards |-> NUM_DUPLICATES]

RECURSIVE SumBags(_, _)
SumBags(h, ps) ==
    IF ps = {} THEN EmptyBag
    ELSE LET p == CHOOSE q \in ps : TRUE
         IN h[p] (+) SumBags(h, ps \ {p})

\* The cards held by all the hands together.
HandsBag(h) == SumBags(h, Players)

\* The last call on the deck: its name, its count (the argument of
\* draw_cards, the number of cards given to add_card/add_cards), the cards it
\* moved (the list a draw returned, the card add_card received) and whether it
\* raised ValueError.
Call(op, n, moved, raised) ==
    [op |-> op, n |-> n, moved |-> moved, raised |-> raised]

\* The deck after VisualDeck.__init__, and empty hands.
InitDeck ==
    /\ cards \in _initialize_deck(colors, numbers)
    /\ hands = [p \in Players |-> EmptyBag]
    /\ last = Call("init", 0, <<>>, FALSE)
    /\ discard = 0

\* deck.shuffle()
DoShuffle ==
    /\ cards' \in Shuffle(cards)
    /\ last' = Call("shuffle", 0, <<>>, FALSE)
    /\ UNCHANGED <<colors, numbers, hands>>

\* hand p takes deck.draw_card()
DrawCard(p) ==
    LET r == draw_card(cards)
    IN /\ cards' = r.cards
       /\ hands' = [hands EXCEPT ![p] = @ (+) SeqToBag(r.card)]
       /\ last' = Call("draw_card", 1, r.card, r.raised)
       /\ UNCHANGED <<colors, numbers>>

\* hand p takes deck.draw_cards(count)
DrawCards(p, count) ==
    LET r == draw_cards(cards, count)
    IN /\ cards' = r.cards
       /\ hands' = [hands EXCEPT ![p] = @ (+) SeqToBag(r.drawn)]
       /\ last' = Call("draw_cards", count, r.drawn, r.raised)
       /\ UNCHANGED <<colors, numbers>>

\* hand p gives card c back: deck.add_card(c)
AddCard(p, c) ==
    /\ BagIn(c, hands[p])
    /\ cards' \in add_card(cards, c)
    /\ hands' = [hands EXCEPT ![p] = @ (-) SetToBag({c})]
    /\ last' = Call("add_card", 1, <<c>>, FALSE)
    /\ UNCHANGED <<colors, numbers>>

\* hand p gives the cards of b back: deck.add_cards(list)
AddCards(p, b) ==
    LET list == BagToSeq(b)
    IN /\ cards' \in add_cards({cards}, list)
       /\ hands' = [hands EXCEPT ![p] = @ (-) b]
       /\ last' = Call("add_cards", Len(list), <<>>, FALSE)
       /\ UNCHANGED <<colors, numbers>>

\* deck.add_cards(deck.draw_cards(count)): the cards drawn go straight back.
ReturnDrawn(count) ==
    LET r == draw_cards(cards, count)
    IN /\ size(cards) <= MaxReturnSize
       /\ cards' \in add_cards({r.cards}, r.drawn)
       /\ last' = Call("return_drawn", count, r.drawn, r.raised)
       /\ UNCHANGED <<colors, numbers, hands>>

\* ------------------------------------------------------------------------
\* Action and ActionButton.

DRAW_MULTIPLE == "draw_multiple"
STEAL == "steal"
DRAW_DISCARD_DRAW == "draw_discard_draw"
DRAW_DISCARD_DISCARD == "draw_discard_discard"
DISCARD_GROUP == "discard_group"
NEXT_TURN == "next_turn"
PLAY_FOR_ME == "play_for_me"

get_all_actions ==
    {DRAW_MULTIPLE, STEAL, DRAW_DISCARD_DRAW, DRAW_DISCARD_DISCARD,
     DISCARD_GROUP, NEXT_TURN}

\* The list `actions` of _setup_buttons: the action of every button.
actions ==
    <<DRAW_MULTIPLE, STEAL, DRAW_DISCARD_DRAW, DRAW_DISCARD_DISCARD,
      DISCARD_GROUP, NEXT_TURN, PLAY_FOR_ME>>

num_buttons == Len(actions)

Buttons == 1..num_buttons

button_spacing == 10

button_padding == 15

total_spacing == button_spacing * (num_buttons + 1)

button_width == ACTION_BOARD_WIDTH - (2 * button_padding)

button_height == (ACTION_BOARD_HEIGHT - total_spacing) \div num_buttons

\* The position of button b; enumerate counts from 0, Buttons from 1.
button_x(b) == ACTION_BOARD_X + button_padding

\* button_y without the spacing between the buttons: a button begins on the
\* line the one above it ends on.
button_y_no_spacing(b) ==
    ACTION_BOARD_Y + button_spacing + (b - 1) * button_height

button_y(b) ==
    ACTION_BOARD_Y + button_spacing + (b - 1) * (button_height + button_spacing)

\* The rectangle test of is_clicked, bounds included.
Inside(b, mouse_x, mouse_y) ==
    /\ button_x(b) <= mouse_x /\ mouse_x <= button_x(b) + button_width
    /\ button_y(b) <= mouse_y /\ mouse_y <= button_y(b) + button_height

\* ActionButton.is_clicked
is_clicked(en, b, mouse_x, mouse_y) ==
    IF ~en[b] THEN FALSE ELSE Inside(b, mouse_x, mouse_y)

\* ------------------------------------------------------------------------
\* The game the board talks to.  The human is the first player; the game
\* answers get_current_player().is_human and action_is_possible, and do_action
\* applies an action.

Game(n, i, poss) ==
    [num_players |-> n, current_player_index |-> i, possible |-> poss]

TheGame == Game(num_players, current_player_index, possible)

is_human_turn(g) == g.current_player_index = 0

action_is_possible(g, action_name) == action_name \in g.possible

\* An action is legal when it is the human's turn and the action is possible;
\* PLAY_FOR_ME is legal whenever it is the human's turn.
Legal(g, action_name) ==
    /\ is_human_turn(g)
    /\ (action_name = PLAY_FOR_ME \/ action_is_possible(g, action_name))

\* What can be possible for the player whose turn it is: drawing and ending
\* the turn always are; stealing, taking a discarded card, discarding a card
\* and discarding a group depend on the cards, and a group to discard needs a
\* card to discard.
PossibleSets ==
    { {DRAW_MULTIPLE, NEXT_TURN} \cup some :
        some \in { t \in SUBSET {STEAL, DRAW_DISCARD_DRAW, DRAW_DISCARD_DISCARD,
                                 DISCARD_GROUP} :
                     DISCARD_GROUP \in t => DRAW_DISCARD_DISCARD \in t } }

\* The games an applied action can leave: NEXT_TURN moves the turn one seat
\* forward, any other action keeps the turn; what is possible afterwards
\* depends on the cards.
Applied(g, action_name) ==
    { Game(g.num_players,
           IF action_name = NEXT_TURN
           THEN (g.current_player_index + 1) % g.num_players
           ELSE g.current_player_index,
           poss) : poss \in PossibleSets }

\* do_action: an illegal action is rejected and changes nothing.
do_action(g, action_name) ==
    IF Legal(g, action_name) THEN Applied(g, action_name) ELSE {g}

\* ------------------------------------------------------------------------
\* ActionBoard.

\* update_button_states with the Play for Me button switched on before the
\* turn is looked at.
update_button_states_any_turn(g) ==
    [b \in Buttons |->
        IF actions[b] = PLAY_FOR_ME THEN TRUE
        ELSE IF ~is_human_turn(g) THEN FALSE
        ELSE action_is_possible(g, actions[b])]

\* update_button_states switching a button off that it finds switched on.
update_button_states_toggle(g) ==
    [b \in Buttons |->
        IF ~is_human_turn(g) \/ enabled[b] THEN FALSE
        ELSE IF actions[b] = PLAY_FOR_ME THEN TRUE
        ELSE action_is_possible(g, actions[b])]

\* update_button_states
update_button_states(g) ==
    [b \in Buttons |->
        IF ~is_human_turn(g) THEN FALSE
        ELSE IF actions[b] = PLAY_FOR_ME THEN TRUE
        ELSE action_is_possible(g, actions[b])]

\* The condition under which handle_click hands button b's action to do_action.
dispatches_hit(en, b, mouse_x, mouse_y) == Inside(b, mouse_x, mouse_y)

dispatches(en, b, mouse_x, mouse_y) ==
    en[b] /\ is_clicked(en, b, mouse_x, mouse_y)

\* handle_click whose loop takes the action name of the button after the one
\* it tests.
RECURSIVE handle_click_loop_next_button(_, _, _, _, _, _)
handle_click_loop_next_button(g, en, b, mouse_x, mouse_y, calls) ==
    LET name == actions[IF b < num_buttons THEN b + 1 ELSE b]
    IN IF b > num_buttons THEN {[game |-> g, dispatched |-> calls]}
       ELSE IF dispatches(en, b, mouse_x, mouse_y)
       THEN UNION { handle_click_loop_next_button(
                        g2, en, b + 1, mouse_x, mouse_y,
                        Append(calls, [button |-> b, action |-> name,
                                       legal |-> Legal(g, name)])) :
                    g2 \in do_action(g, name) }
       ELSE handle_click_loop_next_button(g, en, b + 1, mouse_x, mouse_y,
                                          calls)

\* The loop of handle_click over the buttons from b on: the games it can
\* leave, each with the list of the do_action calls made, and for every call
\* whether the action was legal in the game it was applied to.
RECURSIVE handle_click_loop(_, _, _, _, _, _)
handle_click_loop(g, en, b, mouse_x, mouse_y, calls) ==
    IF b > num_buttons THEN {[game |-> g, dispatched |-> calls]}
    ELSE IF dispatches(en, b, mouse_x, mouse_y)
    THEN UNION { handle_click_loop(g2, en, b + 1, mouse_x, mouse_y,
                     Append(calls, [button |-> b, action |-> actions[b],
                                    legal |-> Legal(g, actions[b])])) :
                 g2 \in do_action(g, actions[b]) }
    ELSE handle_click_loop(g, en, b + 1, mouse_x, mouse_y, calls)

\* What handle_click would return if it did what its docstring says.
handle_click_result_documented(calls) ==
    IF calls = <<>> THEN "None" ELSE calls[1].action

\* What handle_click returns: it has no return statement.
handle_click_result(calls) == "None"

\* The last call on the board: its name, the buttons whose rectangle holds the
\* click, the do_action calls it made and what it returned.
BoardCall(op, hit, dispatched, ret) ==
    [op |-> op, hit |-> hit, dispatched |-> dispatched, ret |-> ret]

\* The clicks tried: on, just inside and just outside every edge of a button.
MouseXs ==
    {button_x(1) - 1, button_x(1), button_x(1) + button_width,
     button_x(1) + button_width + 1}

MouseYs ==
    UNION { {button_y(b) - 1, button_y(b), button_y(b) + button_height,
             button_y(b) + button_height + 1} : b \in Buttons }

\* The board after ActionBoard.__init__ on a new game: every button disabled.
InitBoard ==
    /\ num_players \in {2, 3}
    /\ current_player_index = 0
    /\ possible \in PossibleSets
    /\ enabled = [b \in Buttons |-> FALSE]
    /\ click = BoardCall("init", {}, <<>>, "None")

\* ActionBoard.draw
Draw ==
    /\ enabled' = update_button_states(TheGame)
    /\ click' = BoardCall("draw", {}, <<>>, "None")
    /\ UNCHANGED <<num_players, current_player_index, possible>>
    /\ UNCHANGED <<deckVars, discard, setupVars, uiVars>>

\* ActionBoard.handle_click(mouse_x, mouse_y)
HandleClick(mouse_x, mouse_y) ==
    \E r \in handle_click_loop(TheGame, enabled, 1, mouse_x, mouse_y, <<>>) :
        /\ num_players' = r.game.num_players
        /\ current_player_index' = r.game.current_player_index
        /\ possible' = r.game.possible
        /\ click' = BoardCall("handle_click",
                              {b \in Buttons : Inside(b, mouse_x, mouse_y)},
                              r.dispatched, handle_click_result(r.dispatched))
        /\ UNCHANGED enabled
        /\ UNCHANGED <<deckVars, discard, setupVars, uiVars>>

\* A computer player, whose turn it is, plays: the game applies one of its
\* actions.
ComputerPlays ==
    /\ current_player_index # 0
    /\ \E action_name \in get_all_actions :
         \E g \in Applied(TheGame, action_name) :
            /\ current_player_index' = g.current_player_index
            /\ possible' = g.possible
    /\ click' = BoardCall("computer", {}, <<>>, "None")
    /\ UNCHANGED <<num_players, enabled>>
    /\ UNCHANGED <<deckVars, discard, setupVars, uiVars>>

\* ------------------------------------------------------------------------
\* SelectableButton and BaseSelector.

\* int(v * f) for the factors f the dialogs use, k thousandths: the product
\* of these floats truncates to this integer for every size up to 3000.
Scaled(v, k) == (v * k) \div 1000

\* SelectableButton.__init__
SelectableButton(x, y, width, height, item, en, selectable) ==
    [x |-> x, y |-> y, width |-> width, height |-> height, item |-> item,
     enabled |-> en, selectable |-> selectable,
     hovered |-> FALSE, selected |-> FALSE]

\* The rectangle test of the dialogs' buttons, bounds included.
InRect(button, mouse_x, mouse_y) ==
    /\ button.x <= mouse_x /\ mouse_x <= button.x + button.width
    /\ button.y <= mouse_y /\ mouse_y <= button.y + button.height

\* SelectableButton.is_clicked, SubmitButton.is_clicked
button_is_clicked(button, mouse_x, mouse_y) ==
    IF ~button.enabled THEN FALSE ELSE InRect(button, mouse_x, mouse_y)

\* SelectableButton.update_hover
update_hover(button, mouse_x, mouse_y) ==
    IF ~button.enabled THEN [button EXCEPT !.hovered = FALSE]
    ELSE [button EXCEPT !.hovered = InRect(button, mouse_x, mouse_y)]

\* SubmitButton.update_hover
submit_update_hover(button, mouse_x, mouse_y) ==
    [button EXCEPT !.hovered = InRect(button, mouse_x, mouse_y)]

\* toggle_selection that asks for room under the limit before it looks at
\* the selected flag.
toggle_selection_guarded(button, current_selected_count, max_selections) ==
    IF button.selectable /\ current_selected_count < max_selections
    THEN [button EXCEPT !.selected = ~button.selected]
    ELSE button

\* toggle_selection that selects whatever the count is.
toggle_selection_unlimited(button, current_selected_count, max_selections) ==
    IF button.selectable
    THEN [button EXCEPT !.selected = ~button.selected]
    ELSE button

\* SelectableButton.toggle_selection
toggle_selection(button, current_selected_count, max_selections) ==
    IF button.selectable
    THEN IF button.selected THEN [button EXCEPT !.selected = FALSE]
         ELSE IF current_selected_count < max_selections
         THEN [button EXCEPT !.selected = TRUE]
         ELSE button
    ELSE button

IsSelected(button) == button.selected

\* BaseSelector._get_selected_items, from the list of buttons
selected_items(buttons) ==
    LET picked == SelectSeq(buttons, IsSelected)
    IN [i \in 1..Len(picked) |-> picked[i].item]

_get_selected_items(sel) == selected_items(sel.buttons)

\* validation_func: none given, or a function that accepts these lists.
NoValidation == [given |-> FALSE, accepts |-> {}]

Validation(accepts) == [given |-> TRUE, accepts |-> accepts]

\* _is_valid_selection without its test for an empty selection.
_is_valid_selection_any(sel) ==
    LET chosen == _get_selected_items(sel)
    IN IF sel.validation_func.given
       THEN chosen \in sel.validation_func.accepts
       ELSE Len(chosen) <= sel.max_selections

\* BaseSelector._is_valid_selection
_is_valid_selection(sel) ==
    LET chosen == _get_selected_items(sel)
    IN IF chosen = <<>> THEN FALSE
       ELSE IF sel.validation_func.given
       THEN chosen \in sel.validation_func.accepts
       ELSE Len(chosen) <= sel.max_selections

\* The events of a dialog's loop.
QUIT == [type |-> "QUIT", pos |-> <<0, 0>>, key |-> "None"]

MOUSEBUTTONDOWN(mouse_x, mouse_y) ==
    [type |-> "MOUSEBUTTONDOWN", pos |-> <<mouse_x, mouse_y>>, key |-> "None"]

KEYDOWN(key) == [type |-> "KEYDOWN", pos |-> <<0, 0>>, key |-> key]

Keys == {"K_RETURN", "K_SPACE"}

\* What show() has returned: nothing yet, one item, a list of items, a
\* string, or it has raised SystemExit.
Running == [kind |-> "none"]

ReturnedItem(item) == [kind |-> "item", item |-> item]

ReturnedList(list) == [kind |-> "list", items |-> list]

ReturnedStr(str) == [kind |-> "str", str |-> str]

SystemExit == [kind |-> "SystemExit"]

\* The points tried on a button: two opposite corners, and the points next
\* to them outside each of the four edges.
ButtonPoints(button) ==
    {<<button.x, button.y>>,
     <<button.x + button.width, button.y + button.height>>,
     <<button.x - 1, button.y>>,
     <<button.x, button.y - 1>>,
     <<button.x + button.width + 1, button.y + button.height>>,
     <<button.x + button.width, button.y + button.height + 1>>}

\* The buttons of a list whose rectangle holds a point.
Hit(buttons, pos) ==
    {i \in 1..Len(buttons) : InRect(buttons[i], pos[1], pos[2])}

\* The first button of the list that is_clicked, 0 if none is.
FirstClicked(buttons, mouse_x, mouse_y) ==
    IF \E i \in 1..Len(buttons) : button_is_clicked(buttons[i], mouse_x, mouse_y)
    THEN CHOOSE i \in 1..Len(buttons) :
            /\ button_is_clicked(buttons[i], mouse_x, mouse_y)
            /\ \A j \in 1..(i - 1) :
                  ~button_is_clicked(buttons[j], mouse_x, mouse_y)
    ELSE 0

\* The hover update at the end of every turn of a dialog's loop.
hover_buttons(buttons, mouse_x, mouse_y) ==
    [i \in 1..Len(buttons) |-> update_hover(buttons[i], mouse_x, mouse_y)]

\* ------------------------------------------------------------------------
\* Setting up a game: the players, the deal and the order they are shown in.

Player(name, is_human) == [name |-> name, is_human |-> is_human]

\* get_players of main.py
main_get_players ==
    <<Player("Human", TRUE), Player("Computer 1", FALSE),
      Player("Computer 2", FALSE)>>

\* The lists game.players can be: two or three of the players of main.py,
\* the human among them, in whatever order the game keeps them.
PlayerLists ==
    LET all == {main_get_players[i] : i \in 1..Len(main_get_players)}
    IN { ps \in UNION {[1..k -> all] : k \in 2..Len(main_get_players)} :
            /\ \A i, j \in 1..Len(ps) : i # j => ps[i] # ps[j]
            /\ \E i \in 1..Len(ps) : ps[i].is_human }

PlayerNames(ps) == {ps[i].name : i \in 1..Len(ps)}

\* The number of cards the deal gives every player.
INITIAL_HAND_SIZE == 7

\* The deal: every player, in turn order, draws INITIAL_HAND_SIZE cards.
RECURSIVE deal_loop(_, _, _, _)
deal_loop(cs, hs, ps, i) ==
    IF i > Len(ps) THEN [cards |-> cs, hands |-> hs]
    ELSE LET r == draw_cards(cs, INITIAL_HAND_SIZE)
         IN deal_loop(r.cards,
                      [hs EXCEPT ![ps[i].name] = @ (+) SeqToBag(r.drawn)],
                      ps, i + 1)

\* next(p for p in all_players if p.is_human)
human_player(all_players) ==
    all_players[CHOOSE i \in 1..Len(all_players) :
                   /\ all_players[i].is_human
                   /\ \A j \in 1..(i - 1) : ~all_players[j].is_human]

KeepOthers(all_players, p) == p # human_player(all_players)

\* get_player_display_order putting the human first: insert(0, human_player).
get_player_display_order_left(all_players) ==
    <<human_player(all_players)>>
        \o SelectSeq(all_players, LAMBDA p : KeepOthers(all_players, p))

\* get_player_display_order
get_player_display_order(all_players) ==
    Append(SelectSeq(all_players, LAMBDA p : KeepOthers(all_players, p)),
           human_player(all_players))

\* The orders of the full deck tried: random.shuffle can leave any of its
\* 90! orders; the list of creation and its rotations stand for them.
Rotate(cs, k) == SubSeq(cs, k + 1, Len(cs)) \o SubSeq(cs, 1, k)

\* A new game before the deal: a small deck in any order or the full deck,
\* the players, their hands empty.
InitDeal ==
    /\ \/ /\ colors \in 1..MaxKinds
          /\ numbers \in 1..MaxKinds
          /\ colors * numbers <= MaxKinds
          /\ cards \in _initialize_deck(colors, numbers)
       \/ /\ colors = NumColors
          /\ numbers = NumNumbers
          /\ cards \in {Rotate(initial_cards(NumColors, NumNumbers), k) :
                          k \in 0..(NumColors * NumNumbers * NUM_DUPLICATES - 1)}
    /\ players \in PlayerLists
    /\ hands = [name \in PlayerNames(players) |-> EmptyBag]
    /\ last = Call("init", 0, <<>>, FALSE)
    /\ discard = 0
    /\ display_order = <<>>
    /\ state = "AwaitingDeal"
    /\ winner = "None"
    /\ discard_area = <<>>

\* Game setup deals the cards.
Deal ==
    /\ state = "AwaitingDeal"
    /\ LET r == deal_loop(cards, hands, players, 1)
       IN /\ cards' = r.cards
          /\ hands' = r.hands
    /\ last' = Call("deal", INITIAL_HAND_SIZE, <<>>, FALSE)
    /\ state' = "InProgress"
    /\ UNCHANGED <<colors, numbers, discard, players, display_order, winner,
                   discard_area>>
    /\ UNCHANGED <<boardVars, uiVars>>

\* show_players
ShowPlayers ==
    /\ display_order' = get_player_display_order(players)
    /\ UNCHANGED <<deckVars, discard, players, state, winner, discard_area>>
    /\ UNCHANGED <<boardVars, uiVars>>

\* ------------------------------------------------------------------------
\* PlayerNameSelector and the player setup of player_selection.py.

\* VisualPlayer.get_all_player_names: NumNames different names.
NameList == <<"ada", "ben", "cleo", "dan", "eve", "finn", "gus", "hana">>

get_all_player_names == SubSeq(NameList, 1, NumNames)

\* PlayerNameSelector.__init__ and _setup_buttons
PlayerNameSelector(available_names, max_sel, min_sel) ==
    LET needs_submit == max_sel > 1
        image_size == Scaled(APP_WIDTH, 120)
        player_spacing == APP_WIDTH \div (Len(available_names) + 1)
    IN [kind |-> "names",
        items |-> available_names,
        max_selections |-> max_sel,
        min_selections |-> min_sel,
        needs_submit |-> needs_submit,
        validation_func |-> NoValidation,
        buttons |->
            [i \in 1..Len(available_names) |->
                SelectableButton(player_spacing * i - image_size \div 2,
                                 APP_HEIGHT \div 2 - image_size \div 2,
                                 image_size, image_size,
                                 available_names[i], TRUE, needs_submit)]]

\* The loop over the buttons on a click in multi-select mode: every button
\* under the click is toggled, the count taken anew for each.
RECURSIVE names_toggle_loop(_, _, _, _, _)
names_toggle_loop(buttons, i, mouse_x, mouse_y, max_sel) ==
    IF i > Len(buttons) THEN buttons
    ELSE IF button_is_clicked(buttons[i], mouse_x, mouse_y)
    THEN names_toggle_loop(
             [buttons EXCEPT ![i] =
                 toggle_selection(buttons[i], Len(selected_items(buttons)),
                                  max_sel)],
             i + 1, mouse_x, mouse_y, max_sel)
    ELSE names_toggle_loop(buttons, i + 1, mouse_x, mouse_y, max_sel)

\* PlayerNameSelector.show whose ENTER returns the selection without
\* comparing its size with min_selections.
names_show_event_no_min(sel, ev) ==
    IF ev.type = "QUIT" THEN [selector |-> sel, result |-> SystemExit]
    ELSE IF ev.type = "MOUSEBUTTONDOWN"
    THEN IF sel.needs_submit
         THEN [selector |->
                  [sel EXCEPT !.buttons =
                      names_toggle_loop(sel.buttons, 1, ev.pos[1], ev.pos[2],
                                        sel.max_selections)],
               result |-> Running]
         ELSE LET i == FirstClicked(sel.buttons, ev.pos[1], ev.pos[2])
              IN [selector |-> sel,
                  result |-> IF i = 0 THEN Running
                             ELSE ReturnedItem(sel.buttons[i].item)]
    ELSE IF ev.type = "KEYDOWN" /\ sel.needs_submit
    THEN IF ev.key = "K_RETURN"
         THEN [selector |-> sel,
               result |-> ReturnedList(_get_selected_items(sel))]
         ELSE [selector |-> sel, result |-> Running]
    ELSE [selector |-> sel, result |-> Running]

\* One event in PlayerNameSelector.show: the selector it leaves and what
\* show returns, if it returns.
names_show_event(sel, ev) ==
    IF ev.type = "QUIT" THEN [selector |-> sel, result |-> SystemExit]
    ELSE IF ev.type = "MOUSEBUTTONDOWN"
    THEN IF sel.needs_submit
         THEN [selector |->
                  [sel EXCEPT !.buttons =
                      names_toggle_loop(sel.buttons, 1, ev.pos[1], ev.pos[2],
                                        sel.max_selections)],
               result |-> Running]
         ELSE LET i == FirstClicked(sel.buttons, ev.pos[1], ev.pos[2])
              IN [selector |-> sel,
                  result |-> IF i = 0 THEN Running
                             ELSE ReturnedItem(sel.buttons[i].item)]
    ELSE IF ev.type = "KEYDOWN" /\ sel.needs_submit
    THEN IF ev.key = "K_RETURN"
            /\ Len(_get_selected_items(sel)) >= sel.min_selections
         THEN [selector |-> sel,
               result |-> ReturnedList(_get_selected_items(sel))]
         ELSE [selector |-> sel, result |-> Running]
    ELSE [selector |-> sel, result |-> Running]

\* show_player_selection_screen: `result if isinstance(result, str) else
\* result[0]`
as_single(r) == IF r.kind = "item" THEN r.item ELSE r.items[1]

\* show_opponent_selection_screen: `result if isinstance(result, list) else
\* [result]`
as_list(r) == IF r.kind = "list" THEN r.items ELSE <<r.item>>

IsNot(name, human_name) == name # human_name

\* available_names that keeps the human's name among the opponents' names.
available_names_all(all_names, human_name) == all_names

\* available_names of show_opponent_selection_screen
available_names(all_names, human_name) ==
    SelectSeq(all_names, LAMBDA name : IsNot(name, human_name))

\* The players get_players builds from the two selections.
players_list(human_name, opponent_names) ==
    <<Player(human_name, TRUE)>>
        \o [i \in 1..Len(opponent_names) |-> Player(opponent_names[i], FALSE)]

\* What the last event handled was: its type, its key and the buttons whose
\* rectangle holds its position.
Handled(ev, buttons) ==
    [type |-> ev.type, key |-> ev.key,
     hit |-> IF ev.type = "MOUSEBUTTONDOWN" THEN Hit(buttons, ev.pos) ELSE {}]

\* get_players starts: show_player_selection_screen opens its selector.
InitPlayers ==
    /\ selector = PlayerNameSelector(get_all_player_names, 1, 1)
    /\ dialog = [kind |-> "none"]
    /\ visual = [kind |-> "none"]
    /\ event = [type |-> "none"]
    /\ result = Running
    /\ pc = "choose_self"
    /\ selected_player = "None"
    /\ IdleSetup

\* The events the open selector is tried with.
SelectorPoints == UNION {ButtonPoints(selector.buttons[i]) :
                            i \in 1..Len(selector.buttons)}

SelectorEvents ==
    {QUIT} \cup {KEYDOWN(key) : key \in Keys}
           \cup {MOUSEBUTTONDOWN(pos[1], pos[2]) : pos \in SelectorPoints}

\* get_players, from one event of the open selector's show to the next wait
\* for an event: show handles the event; if it returns, get_players goes on
\* to the opponents' selector or to the list of players.
PlayersEvent(ev) ==
    /\ pc \in {"choose_self", "choose_opponents"}
    /\ LET r == names_show_event(selector, ev)
       IN /\ event' = Handled(ev, selector.buttons)
          /\ result' = r.result
          /\ IF r.result = Running
             THEN /\ selector' = r.selector
                  /\ UNCHANGED <<pc, selected_player, players>>
             ELSE IF r.result = SystemExit
             THEN /\ pc' = "exit"
                  /\ UNCHANGED <<selector, selected_player, players>>
             ELSE IF pc = "choose_self"
             THEN /\ selected_player' = as_single(r.result)
                  /\ selector' = PlayerNameSelector(
                         available_names(get_all_player_names,
                                         as_single(r.result)), 2, 1)
                  /\ pc' = "choose_opponents"
                  /\ UNCHANGED players
             ELSE /\ players' = players_list(selected_player,
                                             as_list(r.result))
                  /\ pc' = "done"
                  /\ UNCHANGED <<selector, selected_player>>
    /\ UNCHANGED <<display_order, state, winner, discard_area, dialog, visual>>
    /\ UNCHANGED <<deckVars, discard, boardVars>>

\* The end of a turn of show's loop: the hover update.
PlayersFrame(mouse_x, mouse_y) ==
    /\ pc \in {"choose_self", "choose_opponents"}
    /\ selector' = [selector EXCEPT
                       !.buttons = hover_buttons(@, mouse_x, mouse_y)]
    /\ UNCHANGED <<event, result, pc, selected_player, dialog, visual>>
    /\ UNCHANGED <<deckVars, discard, boardVars, setupVars>>

\* ------------------------------------------------------------------------
\* CardsSelector.

max_cards_per_row == 10

\* SubmitButton.__init__
SubmitButton(x, y, width, height) ==
    [x |-> x, y |-> y, width |-> width, height |-> height,
     hovered |-> FALSE, enabled |-> FALSE]

\* CardsSelector.__init__ and _setup_buttons; enumerate counts from 0, the
\* buttons from 1.
CardsSelector(available_cards, validation_func) ==
    LET card_width == Scaled(APP_WIDTH, 50)
        card_height == Scaled(APP_HEIGHT, 110)
        card_spacing == Scaled(APP_WIDTH, 8)
        num_cards == Len(available_cards)
        num_rows == (num_cards + max_cards_per_row - 1) \div max_cards_per_row
        start_y == APP_HEIGHT \div 2
                     - (num_rows * (card_height + card_spacing)) \div 2
                     - Scaled(APP_HEIGHT, 60)
        row(i) == (i - 1) \div max_cards_per_row
        col(i) == (i - 1) % max_cards_per_row
        cards_in_row(i) ==
            Min(max_cards_per_row, num_cards - row(i) * max_cards_per_row)
        row_width(i) ==
            cards_in_row(i) * card_width + (cards_in_row(i) - 1) * card_spacing
        start_x(i) == (APP_WIDTH - row_width(i)) \div 2
        submit_width == Scaled(APP_WIDTH, 170)
        submit_height == Scaled(APP_HEIGHT, 60)
    IN [kind |-> "cards",
        items |-> available_cards,
        max_selections |-> Len(available_cards),
        validation_func |-> validation_func,
        buttons |->
            [i \in 1..num_cards |->
                SelectableButton(
                    start_x(i) + col(i) * (card_width + card_spacing),
                    start_y + row(i) * (card_height + card_spacing),
                    card_width, card_height, available_cards[i], TRUE, TRUE)],
        submit_button |->
            SubmitButton((APP_WIDTH - submit_width) \div 2,
                         APP_HEIGHT - Scaled(APP_HEIGHT, 120),
                         submit_width, submit_height)]

\* _update_submit_button_state
_update_submit_button_state(sel) ==
    [sel EXCEPT !.submit_button.enabled = _is_valid_selection(sel)]

\* One event in CardsSelector.show: the selector it leaves and what show
\* returns, if it returns.
cards_show_event(sel, ev) ==
    IF ev.type = "QUIT" THEN [selector |-> sel, result |-> SystemExit]
    ELSE IF ev.type = "MOUSEBUTTONDOWN"
    THEN IF button_is_clicked(sel.submit_button, ev.pos[1], ev.pos[2])
         THEN [selector |-> sel,
               result |-> ReturnedList(_get_selected_items(sel))]
         ELSE LET i == FirstClicked(sel.buttons, ev.pos[1], ev.pos[2])
              IN IF i = 0 THEN [selector |-> sel, result |-> Running]
                 ELSE [selector |->
                          _update_submit_button_state(
                              [sel EXCEPT !.buttons[i] =
                                  toggle_selection(
                                      @, Len(_get_selected_items(sel)),
                                      sel.max_selections)]),
                       result |-> Running]
    ELSE [selector |-> sel, result |-> Running]

\* The cards of a list at the positions of a set, in the list's order.
Pick(list, positions) ==
    LET Keep(i) == i \in positions
        kept == SelectSeq([i \in 1..Len(list) |-> i], Keep)
    IN [k \in 1..Len(kept) |-> list[kept[k]]]

\* The selections a list of cards allows.
Sublists(list) == {Pick(list, positions) : positions \in SUBSET (1..Len(list))}

\* The hands a selector is opened with: up to MaxCards cards of two kinds.
CardKinds == {<<1, 1>>, <<1, 2>>}

CardLists == UNION {[1..k -> CardKinds] : k \in 1..MaxCards}

\* A CardsSelector is opened on some cards with some validation function.
InitCards ==
    /\ \E available_cards \in CardLists :
         \E accepts \in SUBSET Sublists(available_cards) :
            selector = CardsSelector(available_cards, Validation(accepts))
    /\ dialog = [kind |-> "none"]
    /\ visual = [kind |-> "none"]
    /\ event = [type |-> "none"]
    /\ result = Running
    /\ pc = "idle"
    /\ selected_player = "None"
    /\ IdleSetup

\* The events the open CardsSelector is tried with.
CardsPoints == SelectorPoints \cup ButtonPoints(selector.submit_button)

CardsEvents ==
    {QUIT} \cup {KEYDOWN(key) : key \in Keys}
           \cup {MOUSEBUTTONDOWN(pos[1], pos[2]) : pos \in CardsPoints}

\* The last event handled, the submit button counted as button 0.
HandledCards(ev, sel) ==
    [type |-> ev.type, key |-> ev.key,
     hit |-> IF ev.type # "MOUSEBUTTONDOWN" THEN {}
             ELSE Hit(sel.buttons, ev.pos)
                    \cup (IF InRect(sel.submit_button, ev.pos[1], ev.pos[2])
                          THEN {0} ELSE {})]

\* One event of CardsSelector.show
CardsEvent(ev) ==
    /\ selector.kind = "cards"
    /\ result = Running
    /\ LET r == cards_show_event(selector, ev)
       IN /\ selector' = r.selector
          /\ result' = r.result
    /\ event' = HandledCards(ev, selector)
    /\ UNCHANGED <<dialog, visual, pc, selected_player>>
    /\ UNCHANGED <<deckVars, discard, boardVars, setupVars>>

\* The end of a turn of show's loop: the hover update.
CardsFrame(mouse_x, mouse_y) ==
    /\ selector.kind = "cards"
    /\ result = Running
    /\ selector' =
          [selector EXCEPT
              !.buttons = hover_buttons(@, mouse_x, mouse_y),
              !.submit_button = submit_update_hover(@, mouse_x, mouse_y)]
    /\ UNCHANGED <<event, result, dialog, visual, pc, selected_player>>
    /\ UNCHANGED <<deckVars, discard, boardVars, setupVars>>

\* ------------------------------------------------------------------------
\* WinnerDisplay.

\* pygame.Rect(left, top, width, height)
Rect(left, top, width, height) ==
    [x |-> left, y |-> top, width |-> width, height |-> height]

\* pygame.Rect.collidepoint: the right and the bottom edge are outside.
collidepoint(rect, mouse_x, mouse_y) ==
    /\ rect.x <= mouse_x /\ mouse_x < rect.x + rect.width
    /\ rect.y <= mouse_y /\ mouse_y < rect.y + rect.height

\* WinnerDisplay.__init__ with the Quit button given the New Game button's
\* place.
WinnerDisplay_stacked(player) ==
    LET winner_button_width == 250
        winner_button_height == 60
        winner_dialog_width == 600
        winner_dialog_height == 550
        winner_dialog_x == (APP_WIDTH - winner_dialog_width) \div 2
        winner_dialog_y == (APP_HEIGHT - winner_dialog_height) \div 2
        rect == Rect(winner_dialog_x + (winner_dialog_width - winner_button_width) \div 2,
                     winner_dialog_y + winner_dialog_height - 140,
                     winner_button_width, winner_button_height)
    IN [kind |-> "winner",
        winner_name |-> player.name,
        new_game_button_rect |-> rect,
        quit_button_rect |-> rect,
        new_game_hovered |-> FALSE,
        quit_hovered |-> FALSE]

\* WinnerDisplay.__init__ that takes the name from somewhere else than the
\* winner it is given.
WinnerDisplay_unnamed(player) ==
    LET winner_button_width == 250
        winner_button_height == 60
        winner_button_spacing == 20
        winner_dialog_width == 600
        winner_dialog_height == 550
        winner_dialog_x == (APP_WIDTH - winner_dialog_width) \div 2
        winner_dialog_y == (APP_HEIGHT - winner_dialog_height) \div 2
    IN [kind |-> "winner",
        winner_name |-> "None",
        new_game_button_rect |->
            Rect(winner_dialog_x
                    + (winner_dialog_width - winner_button_width) \div 2,
                 winner_dialog_y + winner_dialog_height - 140,
                 winner_button_width, winner_button_height),
        quit_button_rect |->
            Rect(winner_dialog_x
                    + (winner_dialog_width - winner_button_width) \div 2,
                 winner_dialog_y + winner_dialog_height - 140
                    + winner_button_height + winner_button_spacing,
                 winner_button_width, winner_button_height),
        new_game_hovered |-> FALSE,
        quit_hovered |-> FALSE]

\* WinnerDisplay.__init__ (its locals carry the prefix winner_, the action
\* board has a button_width of its own).
WinnerDisplay(player) ==
    LET winner_button_width == 250
        winner_button_height == 60
        winner_button_spacing == 20
        winner_dialog_width == 600
        winner_dialog_height == 550
        winner_dialog_x == (APP_WIDTH - winner_dialog_width) \div 2
        winner_dialog_y == (APP_HEIGHT - winner_dialog_height) \div 2
    IN [kind |-> "winner",
        winner_name |-> player.name,
        new_game_button_rect |->
            Rect(winner_dialog_x + (winner_dialog_width - winner_button_width) \div 2,
                 winner_dialog_y + winner_dialog_height - 140,
                 winner_button_width, winner_button_height),
        quit_button_rect |->
            Rect(winner_dialog_x + (winner_dialog_width - winner_button_width) \div 2,
                 winner_dialog_y + winner_dialog_height - 140 + winner_button_height
                    + winner_button_spacing,
                 winner_button_width, winner_button_height),
        new_game_hovered |-> FALSE,
        quit_hovered |-> FALSE]

\* One event in WinnerDisplay.show: what show returns, if it returns.
winner_show_event(dlg, ev) ==
    IF ev.type = "QUIT" THEN ReturnedStr("quit")
    ELSE IF ev.type = "MOUSEBUTTONDOWN"
    THEN IF collidepoint(dlg.new_game_button_rect, ev.pos[1], ev.pos[2])
         THEN ReturnedStr("new_game")
         ELSE IF collidepoint(dlg.quit_button_rect, ev.pos[1], ev.pos[2])
         THEN ReturnedStr("quit")
         ELSE Running
    ELSE Running

\* The points tried on a rectangle: those of a button, and the last points
\* inside it next to its right and bottom edge.
RectPoints(rect) ==
    ButtonPoints(rect)
        \cup {<<rect.x + rect.width - 1, rect.y + rect.height - 1>>,
              <<rect.x + rect.width, rect.y + rect.height - 1>>,
              <<rect.x + rect.width - 1, rect.y + rect.height>>}

WinnerPoints ==
    RectPoints(dialog.new_game_button_rect)
        \cup RectPoints(dialog.quit_button_rect)

WinnerEvents ==
    {QUIT} \cup {KEYDOWN(key) : key \in Keys}
           \cup {MOUSEBUTTONDOWN(pos[1], pos[2]) : pos \in WinnerPoints}

\* A game has ended and its winner's dialog is opened.
InitWinner ==
    /\ players = main_get_players
    /\ display_order = <<>>
    /\ state = "Finished"
    /\ discard_area = <<>>
    /\ winner \in PlayerNames(players)
    /\ \E i \in 1..Len(players) :
          /\ players[i].name = winner
          /\ dialog = WinnerDisplay(players[i])
    /\ selector = [kind |-> "none"]
    /\ visual = [kind |-> "none"]
    /\ event = [type |-> "none"]
    /\ result = Running
    /\ pc = "idle"
    /\ selected_player = "None"

\* One event of WinnerDisplay.show
WinnerEvent(ev) ==
    /\ dialog.kind = "winner"
    /\ result = Running
    /\ result' = winner_show_event(dialog, ev)
    /\ event' = ev
    /\ UNCHANGED <<dialog, selector, visual, pc, selected_player>>
    /\ UNCHANGED <<deckVars, discard, boardVars, setupVars>>

\* The end of a turn of show's loop: the hover update.
WinnerFrame(mouse_x, mouse_y) ==
    /\ dialog.kind = "winner"
    /\ result = Running
    /\ dialog' =
          [dialog EXCEPT
              !.new_game_hovered =
                  collidepoint(dialog.new_game_button_rect, mouse_x, mouse_y),
              !.quit_hovered =
                  collidepoint(dialog.quit_button_rect, mouse_x, mouse_y)]
    /\ UNCHANGED <<event, result, selector, visual, pc, selected_player>>
    /\ UNCHANGED <<deckVars, discard, boardVars, setupVars>>

\* ------------------------------------------------------------------------
\* The main menu and the tutorial scene of main.py.

\* The most events pygame.event.get() hands over in one frame.
MaxBatch == 2

MOUSEBUTTONUP(button, mouse_x, mouse_y) ==
    [type |-> "MOUSEBUTTONUP", pos |-> <<mouse_x, mouse_y>>, key |-> "None",
     button |-> button]

\* show_main_menu has returned None.
ReturnedNone == [kind |-> "None"]

\* The layout of show_main_menu: four buttons in the right panel, one under
\* the other.
show_main_menu_layout(app_width, app_height) ==
    LET left_w == (app_width * 62) \div 100
        right_w == app_width - left_w
        padding == 24
        btn_w == right_w - padding * 2
        btn_h == 64
        btn_x == left_w + padding
        total_btns_h == 4 * btn_h + 3 * 12
        start_y == (app_height - total_btns_h) \div 2
        labels == <<<<"Start Game", "start">>, <<"Tutorial", "tutorial">>,
                    <<"Settings", "settings">>, <<"Quit", "quit">>>>
    IN [kind |-> "menu",
        btn_rects |->
            [i \in 1..Len(labels) |->
                [rect |-> Rect(btn_x, start_y + (i - 1) * (btn_h + 12),
                               btn_w, btn_h),
                 lbl |-> labels[i][1],
                 key |-> labels[i][2]]]]

\* The locals of show_main_menu's loop; exited says that sys.exit was called.
MenuLocals == [result |-> "None", running |-> TRUE, exited |-> FALSE]

RECURSIVE show_main_menu_click_returns_quit(_, _, _, _)
\* The loop over the buttons with Quit treated like the other buttons.
show_main_menu_click_returns_quit(btn_rects, i, pos, st) ==
    IF i > Len(btn_rects) THEN st
    ELSE IF collidepoint(btn_rects[i].rect, pos[1], pos[2])
    THEN show_main_menu_click_returns_quit(
             btn_rects, i + 1, pos,
             [st EXCEPT !.result = btn_rects[i].key, !.running = FALSE])
    ELSE show_main_menu_click_returns_quit(btn_rects, i + 1, pos, st)

RECURSIVE show_main_menu_click(_, _, _, _)
\* show_main_menu, the loop over the buttons for one left click, from
\* button i on.
show_main_menu_click(btn_rects, i, pos, st) ==
    IF i > Len(btn_rects) THEN st
    ELSE IF collidepoint(btn_rects[i].rect, pos[1], pos[2])
    THEN IF btn_rects[i].key = "quit"
         THEN [st EXCEPT !.exited = TRUE]
         ELSE show_main_menu_click(
                  btn_rects, i + 1, pos,
                  [st EXCEPT !.result = btn_rects[i].key, !.running = FALSE])
    ELSE show_main_menu_click(btn_rects, i + 1, pos, st)

RECURSIVE show_main_menu_events(_, _, _)
\* show_main_menu, the loop over the events of one frame: it goes on after a
\* button has set the result, and ends at once where the process exits.
show_main_menu_events(btn_rects, batch, st) ==
    IF batch = <<>> \/ st.exited THEN st
    ELSE LET e == Head(batch)
         IN IF e.type = "QUIT" THEN [st EXCEPT !.exited = TRUE]
            ELSE IF e.type = "MOUSEBUTTONUP" /\ e.button = 1
            THEN show_main_menu_events(
                     btn_rects, Tail(batch),
                     show_main_menu_click(btn_rects, 1, e.pos, st))
            ELSE show_main_menu_events(btn_rects, Tail(batch), st)

\* What one frame of show_main_menu leaves: SystemExit, the value returned
\* when running has become false, or nothing yet.
show_main_menu_frame(menu, batch) ==
    LET st == show_main_menu_events(menu.btn_rects, batch, MenuLocals)
    IN IF st.exited THEN SystemExit
       ELSE IF st.running THEN Running
       ELSE IF st.result = "None" THEN ReturnedNone
       ELSE ReturnedStr(st.result)

\* main, after show_main_menu has returned choice: where it goes next.  sys
\* is not imported by the module, so the branch of None ends in a NameError.
main_choice(choice) ==
    IF choice = ReturnedNone THEN "NameError"
    ELSE IF choice = ReturnedStr("tutorial") THEN "run_tutorial_placeholder"
    ELSE "init_game"

\* The scene of run_tutorial_placeholder: its one button, and what the
\* function has returned.
run_tutorial_placeholder(app_width, app_height) ==
    [kind |-> "tutorial",
     btn_rect |-> Rect(app_width \div 2 - 120, app_height - 140, 240, 64),
     returned |-> "None"]

RECURSIVE run_tutorial_events(_, _, _)
\* run_tutorial_placeholder, the loop over the events of one frame: QUIT
\* returns False at once, a left click on the button ends the scene after
\* the frame's events.
run_tutorial_events(btn_rect, batch, showing) ==
    IF batch = <<>> THEN IF showing THEN "None" ELSE "True"
    ELSE LET e == Head(batch)
         IN IF e.type = "QUIT" THEN "False"
            ELSE IF /\ e.type = "MOUSEBUTTONUP"
                    /\ e.button = 1
                    /\ collidepoint(btn_rect, e.pos[1], e.pos[2])
            THEN run_tutorial_events(btn_rect, Tail(batch), FALSE)
            ELSE run_tutorial_events(btn_rect, Tail(batch), showing)

\* The rectangles on the screen.
SceneRects ==
    IF dialog.kind = "menu"
    THEN {dialog.btn_rects[i].rect : i \in DOMAIN dialog.btn_rects}
    ELSE IF dialog.kind = "tutorial" THEN {dialog.btn_rect}
    ELSE {}

\* The points tried on a rectangle: its first and its last point, and the
\* point under the last one, outside.
ScenePoints(rect) ==
    {<<rect.x, rect.y>>,
     <<rect.x + rect.width - 1, rect.y + rect.height - 1>>,
     <<rect.x + rect.width - 1, rect.y + rect.height>>}

\* The events tried: a left click at the points of every rectangle, a right
\* click on the lowest rectangle, a key and the window's close button.
SceneEvents ==
    LET lowest == CHOOSE rect \in SceneRects :
                     \A other \in SceneRects : other.y <= rect.y
    IN {QUIT, KEYDOWN("K_RETURN"), MOUSEBUTTONUP(3, lowest.x, lowest.y)}
          \cup {MOUSEBUTTONUP(1, pos[1], pos[2]) :
                   pos \in UNION {ScenePoints(rect) : rect \in SceneRects}}

Batches ==
    UNION {[1..n -> SceneEvents] : n \in 0..MaxBatch}

\* main up to the call of show_main_menu: a window of 1200 x 800.
InitMenu ==
    /\ selector = [kind |-> "none"]
    /\ dialog = show_main_menu_layout(1200, 800)
    /\ visual = [kind |-> "none"]
    /\ event = [type |-> "batch", events |-> <<>>]
    /\ result = Running
    /\ pc = "show_main_menu"
    /\ selected_player = "None"

\* One frame of show_main_menu.
MenuFrame(batch) ==
    /\ pc = "show_main_menu"
    /\ result' = show_main_menu_frame(dialog, batch)
    /\ pc' = IF result' = SystemExit THEN "sys.exit"
             ELSE IF result' = Running THEN "show_main_menu"
             ELSE "main"
    /\ event' = [type |-> "batch", events |-> batch]
    /\ UNCHANGED <<dialog, selector, visual, selected_player>>
    /\ UNCHANGED <<deckVars, discard, boardVars, setupVars>>

\* main, from the return of show_main_menu to the tutorial or the game.
MainChoice ==
    /\ pc = "main"
    /\ pc' = main_choice(result)
    /\ dialog' = IF pc' = "run_tutorial_placeholder"
                 THEN run_tutorial_placeholder(1200, 800)
                 ELSE dialog
    /\ event' = [type |-> "batch", events |-> <<>>]
    /\ UNCHANGED <<result, selector, visual, selected_player>>
    /\ UNCHANGED <<deckVars, discard, boardVars, setupVars>>

\* One frame of run_tutorial_placeholder; main drops the value it returns and
\* goes on to the game.
TutorialFrame(batch) ==
    /\ pc = "run_tutorial_placeholder"
    /\ dialog' = [dialog EXCEPT
                     !.returned =
                         run_tutorial_events(dialog.btn_rect, batch, TRUE)]
    /\ pc' = IF dialog'.returned = "None" THEN "run_tutorial_placeholder"
             ELSE "init_game"
    /\ event' = [type |-> "batch", events |-> batch]
    /\ UNCHANGED <<result, selector, visual, selected_player>>
    /\ UNCHANGED <<deckVars, discard, boardVars, setupVars>>


\* ------------------------------------------------------------------------
\* Visual: the movement animation.

Abs(n) == IF n < 0 THEN -n ELSE n

\* The integer part of the square root of n.
Root(n) == CHOOSE r \in 0..(2 * GridMax + 2) : r * r <= n /\ n < (r + 1) * (r + 1)

\* Visual.__init__
Visual(x, y) ==
    [kind |-> "visual", x |-> x, y |-> y, target_x |-> x, target_y |-> y]

\* Visual.move
move(v, x, y) == [v EXCEPT !.target_x = x, !.target_y = y]

\* Visual.draw without the snap: an element closer than ANIMATION_SPEED to
\* its target stays where it is.
draw_no_snap(v) ==
    LET dx == v.target_x - v.x
        dy == v.target_y - v.y
        distance == Root(dx * dx + dy * dy)
    IN IF dx * dx + dy * dy > ANIMATION_SPEED * ANIMATION_SPEED
       THEN [v EXCEPT !.x = v.x + (dx * ANIMATION_SPEED) \div distance,
                      !.y = v.y + (dy * ANIMATION_SPEED) \div distance]
       ELSE v

\* Visual.draw: the position after a frame. The distance is compared by its
\* square; on the moves of ExactMove the distance is a whole number and both
\* steps are whole numbers, in the floats of the code too.
draw(v) ==
    LET dx == v.target_x - v.x
        dy == v.target_y - v.y
        distance == Root(dx * dx + dy * dy)
    IN IF dx * dx + dy * dy > ANIMATION_SPEED * ANIMATION_SPEED
       THEN [v EXCEPT !.x = v.x + (dx * ANIMATION_SPEED) \div distance,
                      !.y = v.y + (dy * ANIMATION_SPEED) \div distance]
       ELSE [v EXCEPT !.x = v.target_x, !.y = v.target_y]

\* The moves on which draw computes without rounding: along an axis, and
\* along a 3-4-5 direction when a fifth of ANIMATION_SPEED is a whole number.
ExactMove(dx, dy) ==
    \/ dx = 0
    \/ dy = 0
    \/ /\ ANIMATION_SPEED % 5 = 0
       /\ \/ 3 * Abs(dy) = 4 * Abs(dx)
          \/ 4 * Abs(dy) = 3 * Abs(dx)

Grid == 0..GridMax

AtTarget(v) == v.x = v.target_x /\ v.y = v.target_y

\* An element is constructed somewhere on the grid.
InitVisual ==
    /\ \E x \in Grid, y \in Grid : visual = Visual(x, y)
    /\ event = [type |-> "none", frames |-> 0]
    /\ selector = [kind |-> "none"]
    /\ dialog = [kind |-> "none"]
    /\ result = Running
    /\ pc = "idle"
    /\ selected_player = "None"

\* A call of move; event.frames counts the frames that moved the element
\* since.
Move(x, y) ==
    /\ visual.kind = "visual"
    /\ ExactMove(x - visual.x, y - visual.y)
    /\ visual' = move(visual, x, y)
    /\ event' = [type |-> "move", frames |-> 0]
    /\ UNCHANGED <<selector, dialog, result, pc, selected_player>>
    /\ UNCHANGED <<deckVars, discard, boardVars, setupVars>>

\* A frame: a call of Visual.draw.
DrawFrame ==
    /\ visual.kind = "visual"
    /\ visual' = draw(visual)
    /\ event' = [type |-> "draw",
                 frames |-> IF AtTarget(visual) THEN event.frames
                            ELSE event.frames + 1]
    /\ UNCHANGED <<selector, dialog, result, pc, selected_player>>
    /\ UNCHANGED <<deckVars, discard, boardVars, setupVars>>

\* ------------------------------------------------------------------------
\* GameEngine: apply_action and the win detection.

\* GameState with the engine's state and winner.
GameState(ps, cs, hs, area, i, st, w) ==
    [players |-> ps, cards |-> cs, hands |-> hs, discard_area |-> area,
     current_player_index |-> i, state |-> st, winner |-> w]

TheGameState ==
    GameState(players, cards, hands, discard_area, current_player_index,
              state, winner)

\* apply_action(action_kind, actor, parameters): the parameters are a count,
\* a target player, a card and a group of cards; a kind reads its own.
Request(kind, actor, count, target, card, group) ==
    [kind |-> kind, actor |-> actor, count |-> count, target |-> target,
     card |-> card, group |-> group]

current_player(g) == g.players[g.current_player_index + 1]

hand_size(g, name) == BagCardinality(g.hands[name])

OneCard(card) == SetToBag({card})

\* The group-validity predicate, the rule of equal rank across distinct
\* colors: a card is <<color, number>>.
is_valid_group(group) ==
    /\ BagCardinality(group) >= 1
    /\ \A c \in BagToSet(group) : group[c] = 1
    /\ \A c \in BagToSet(group), d \in BagToSet(group) : c[2] = d[2]

\* The legality predicates of the action kinds.
is_legal(g, req) ==
    LET turn == req.actor = current_player(g).name
    IN CASE req.kind = DRAW_MULTIPLE -> turn /\ req.count \in 1..3
         [] req.kind = STEAL ->
                /\ turn
                /\ req.target # req.actor
                /\ BagIn(req.card, g.hands[req.target])
         [] req.kind = DRAW_DISCARD_DRAW -> Len(g.discard_area) > 0
         [] req.kind = DRAW_DISCARD_DISCARD ->
                BagIn(req.card, g.hands[req.actor])
         [] req.kind = DISCARD_GROUP ->
                /\ is_valid_group(req.group)
                /\ req.group \sqsubseteq g.hands[req.actor]
         [] req.kind = NEXT_TURN -> turn
         [] req.kind = PLAY_FOR_ME -> turn /\ current_player(g).is_human
         [] OTHER -> FALSE

\* The effects of the action kinds.
effect(g, req) ==
    CASE req.kind = DRAW_MULTIPLE ->
            LET r == draw_cards(g.cards, req.count)
            IN [g EXCEPT !.cards = r.cards,
                         !.hands[req.actor] = @ (+) SeqToBag(r.drawn)]
      [] req.kind = STEAL ->
            [g EXCEPT !.hands[req.target] = @ (-) OneCard(req.card),
                      !.hands[req.actor] = @ (+) OneCard(req.card)]
      [] req.kind = DRAW_DISCARD_DRAW ->
            LET n == Len(g.discard_area)
            IN [g EXCEPT !.hands[req.actor] = @ (+) OneCard(g.discard_area[n]),
                         !.discard_area = SubSeq(@, 1, n - 1)]
      [] req.kind = DRAW_DISCARD_DISCARD ->
            [g EXCEPT !.hands[req.actor] = @ (-) OneCard(req.card),
                      !.discard_area = Append(@, req.card)]
      [] req.kind = DISCARD_GROUP ->
            [g EXCEPT !.hands[req.actor] = @ (-) req.group,
                      !.discard_area = @ \o BagToSeq(req.group)]
      [] req.kind = NEXT_TURN ->
            [g EXCEPT !.current_player_index = (@ + 1) % Len(g.players)]
      [] OTHER -> g

\* The win condition, checked after every effect: the first player whose
\* hand is empty has won.
check_win(g) ==
    LET empty == {i \in 1..Len(g.players) :
                     hand_size(g, g.players[i].name) = 0}
    IN IF empty = {} THEN g
       ELSE [g EXCEPT !.state = "Finished",
                      !.winner =
                          g.players[CHOOSE i \in empty :
                                       \A j \in empty : i <= j].name]

\* What apply_action returns.
Outcome(g) == [kind |-> "outcome", winner |-> g.winner]

Rejection(error) == [kind |-> "rejection", error |-> error]

\* The requests a driver can make in a game.
Requests(g) ==
    LET names == PlayerNames(g.players)
        none == <<0, 0>>
        any == UNION {BagToSet(g.hands[name]) : name \in names}
                  \cup {g.discard_area[i] : i \in 1..Len(g.discard_area)}
                  \cup {g.cards[i] : i \in 1..Len(g.cards)}
    IN {Request(DRAW_MULTIPLE, a, n, a, none, EmptyBag) :
            a \in names, n \in 0..4}
       \cup {Request(STEAL, a, 0, t, c, EmptyBag) :
            a \in names, t \in names, c \in any}
       \cup {Request(DRAW_DISCARD_DRAW, a, 0, a, none, EmptyBag) : a \in names}
       \cup {Request(DRAW_DISCARD_DISCARD, a, 0, a, c, EmptyBag) :
            a \in names, c \in any}
       \cup UNION {{Request(DISCARD_GROUP, a, 0, a, none, group) :
                     group \in SubBags(g.hands[a])
                                  \cup {OneCard(c) : c \in any}} :
                  a \in names}
       \cup {Request(kind, a, 0, a, none, EmptyBag) :
            kind \in {NEXT_TURN, PLAY_FOR_ME}, a \in names}

\* PLAY_FOR_ME: the DecisionAgent chooses among the actor's legal actions.
agent_choices(g, actor) ==
    {req \in Requests(g) :
        /\ req.actor = actor
        /\ req.kind # PLAY_FOR_ME
        /\ is_legal(g, req)}

\* apply_action: the games and results it can leave.
apply_action(g, req) ==
    IF g.state = "Finished"
    THEN {[game |-> g, result |-> Rejection("GameAlreadyFinished")]}
    ELSE IF ~is_legal(g, req)
    THEN {[game |-> g, result |-> Rejection("IllegalAction")]}
    ELSE IF req.kind = PLAY_FOR_ME
    THEN {[game |-> check_win(effect(g, chosen)),
           result |-> Outcome(check_win(effect(g, chosen)))] :
             chosen \in agent_choices(g, req.actor)}
    ELSE {[game |-> check_win(effect(g, req)),
           result |-> Outcome(check_win(effect(g, req)))]}

RECURSIVE Taken(_, _)
Taken(take, n) == IF n = 0 THEN 0 ELSE take[n] + Taken(take, n - 1)

Seat(ps, name) == CHOOSE i \in 1..Len(ps) : ps[i].name = name

\* A game in progress, the human in the first seat as get_players seats them:
\* the cards of a shuffled deck are in the hands, no hand empty, in the
\* discard area and in the draw pile.
InitGame ==
    /\ colors = MaxKinds
    /\ numbers = 1
    /\ players \in {ps \in PlayerLists : ps[1].is_human}
    /\ \E deck \in _initialize_deck(colors, numbers),
          take \in [1..Len(players) -> 1..2],
          area \in 0..1 :
          LET held == Taken(take, Len(players))
          IN /\ held + area <= Len(deck)
             /\ hands = [name \in PlayerNames(players) |->
                           LET i == Seat(players, name)
                           IN SeqToBag(SubSeq(deck, Taken(take, i - 1) + 1,
                                              Taken(take, i)))]
             /\ discard_area = SubSeq(deck, held + 1, held + area)
             /\ cards = SubSeq(deck, held + area + 1, Len(deck))
    /\ last = Call("init", 0, <<>>, FALSE)
    /\ discard = 0
    /\ num_players = Len(players)
    /\ current_player_index = 0
    /\ possible = {}
    /\ enabled = [b \in Buttons |-> FALSE]
    /\ click = BoardCall("init", {}, <<>>, "None")
    /\ display_order = <<>>
    /\ state = "InProgress"
    /\ winner = "None"
    /\ IdleUi

\* The driver routes a request into apply_action.
ApplyAction(req) ==
    /\ \E r \in apply_action(TheGameState, req) :
          /\ cards' = r.game.cards
          /\ hands' = r.game.hands
          /\ discard_area' = r.game.discard_area
          /\ current_player_index' = r.game.current_player_index
          /\ state' = r.game.state
          /\ winner' = r.game.winner
          /\ result' = r.result
    /\ UNCHANGED <<colors, numbers, last, discard, players, display_order>>
    /\ UNCHANGED <<num_players, possible, enabled, click>>
    /\ UNCHANGED <<selector, dialog, visual, event, pc, selected_player>>

\* The driver shows the winner the engine reports.
ShowWinner ==
    /\ state = "Finished"
    /\ dialog.kind = "none"
    /\ dialog' = WinnerDisplay(players[Seat(players, winner)])
    /\ UNCHANGED <<selector, visual, event, result, pc, selected_player>>
    /\ UNCHANGED <<deckVars, discard, boardVars, setupVars>>

\* ------------------------------------------------------------------------
\* A single SelectableButton and calls of its toggle_selection.

\* A button is constructed, selectable or not, enabled or not; somebody is
\* going to call toggle_selection with a max_selections.
InitToggle ==
    /\ \E en \in BOOLEAN, selectable \in BOOLEAN, max_sel \in 0..MaxSel :
          selector = [kind |-> "button",
                      button |-> SelectableButton(0, 0, 1, 1, "item", en,
                                                  selectable),
                      max_selections |-> max_sel]
    /\ event = [type |-> "none", calls |-> <<>>]
    /\ dialog = [kind |-> "none"]
    /\ visual = [kind |-> "none"]
    /\ result = Running
    /\ pc = "idle"
    /\ selected_player = "None"

\* A call of toggle_selection; event.calls keeps, for every call, the count
\* it was given and the button it found.
Toggle(current_selected_count) ==
    /\ selector.kind = "button"
    /\ Len(event.calls) < MaxToggles
    /\ selector' =
          [selector EXCEPT
              !.button = toggle_selection(@, current_selected_count,
                                          selector.max_selections)]
    /\ event' = [type |-> "toggle",
                 calls |-> Append(event.calls,
                                  [count |-> current_selected_count,
                                   button |-> selector.button])]
    /\ UNCHANGED <<dialog, visual, result, pc, selected_player>>
    /\ UNCHANGED <<deckVars, discard, boardVars, setupVars>>

\* ------------------------------------------------------------------------
\* Specifications.

\* The board of a game nobody has opened during the deck's specifications.
IdleBoard ==
    /\ num_players = 2
    /\ current_player_index = 0
    /\ possible = {DRAW_MULTIPLE, NEXT_TURN}
    /\ enabled = [b \in Buttons |-> FALSE]
    /\ click = BoardCall("init", {}, <<>>, "None")

\* The deck: hands draw from it and return cards to it in any order.
Init ==
    /\ colors \in 1..MaxKinds
    /\ numbers \in 1..MaxKinds
    /\ colors * numbers <= MaxKinds
    /\ InitDeck
    /\ IdleBoard
    /\ IdleSetup
    /\ IdleUi

Next ==
    \/ DoShuffle /\ UNCHANGED <<discard, boardVars, setupVars, uiVars>>
    \/ \E p \in Players : DrawCard(p) /\ UNCHANGED <<discard, boardVars, setupVars, uiVars>>
    \/ \E p \in Players : \E count \in (-1)..MaxCount :
          DrawCards(p, count) /\ UNCHANGED <<discard, boardVars, setupVars, uiVars>>
    \/ \E p \in Players : \E c \in BagToSet(hands[p]) :
          AddCard(p, c) /\ UNCHANGED <<discard, boardVars, setupVars, uiVars>>
    \/ \E p \in Players : \E b \in SubBags(hands[p]) :
          AddCards(p, b) /\ UNCHANGED <<discard, boardVars, setupVars, uiVars>>

Spec == Init /\ [][Next]_vars

\* The exhaustion scenario: a deck of 1 + 5 cards; the hands draw up to
\* MaxCount cards at a time and discard all their cards at once.  discard
\* counts the cards returned to the deck since it was last drawn from; a draw
\* leaves in it the number it found.
InitExhaustion ==
    /\ colors = 1
    /\ numbers \in 1..(1 + 5)
    /\ colors * numbers * NUM_DUPLICATES = 1 + 5
    /\ InitDeck
    /\ IdleBoard
    /\ IdleSetup
    /\ IdleUi

DiscardedBefore ==
    IF last.op \in {"draw_card", "draw_cards"} THEN 0 ELSE discard

ExhaustionDraw(p, count) ==
    /\ DrawCards(p, count)
    /\ discard' = DiscardedBefore
    /\ UNCHANGED <<boardVars, setupVars, uiVars>>

ExhaustionDiscard(p) ==
    /\ AddCards(p, hands[p])
    /\ discard' = DiscardedBefore + BagCardinality(hands[p])
    /\ UNCHANGED <<boardVars, setupVars, uiVars>>

NextExhaustion ==
    \/ \E p \in Players : \E count \in 0..MaxCount : ExhaustionDraw(p, count)
    \/ \E p \in Players : ExhaustionDiscard(p)

SpecExhaustion == InitExhaustion /\ [][NextExhaustion]_vars

\* The action board: redraws, clicks and computer turns in any order.
InitBoardSpec ==
    /\ colors = 1
    /\ numbers = 1
    /\ InitDeck
    /\ InitBoard
    /\ IdleSetup
    /\ IdleUi

NextBoard ==
    \/ Draw
    \/ \E mouse_x \in MouseXs : \E mouse_y \in MouseYs :
          HandleClick(mouse_x, mouse_y)
    \/ ComputerPlays

SpecBoard == InitBoardSpec /\ [][NextBoard]_vars

\* Setting up a game: the deal, and the players shown before and after it.
InitDealSpec ==
    /\ InitDeal
    /\ IdleBoard
    /\ IdleUi

NextDeal ==
    \/ Deal
    \/ ShowPlayers

SpecDeal == InitDealSpec /\ [][NextDeal]_vars

\* The player setup: the events of the two selection screens in any order.
InitPlayersSpec ==
    /\ colors = 1
    /\ numbers = 1
    /\ InitDeck
    /\ IdleBoard
    /\ InitPlayers

NextPlayers ==
    \/ \E ev \in SelectorEvents : PlayersEvent(ev)
    \/ \E pos \in SelectorPoints : PlayersFrame(pos[1], pos[2])

SpecPlayers == InitPlayersSpec /\ [][NextPlayers]_vars

\* The discard-group dialog: clicks on cards and on Submit in any order.
InitCardsSpec ==
    /\ colors = 1
    /\ numbers = 1
    /\ InitDeck
    /\ IdleBoard
    /\ InitCards

NextCards ==
    \/ \E ev \in CardsEvents : CardsEvent(ev)
    \/ \E pos \in CardsPoints : CardsFrame(pos[1], pos[2])

SpecCards == InitCardsSpec /\ [][NextCards]_vars

\* The winner's dialog: events and hover updates in any order.
InitWinnerSpec ==
    /\ colors = 1
    /\ numbers = 1
    /\ InitDeck
    /\ IdleBoard
    /\ InitWinner

NextWinner ==
    \/ \E ev \in WinnerEvents : WinnerEvent(ev)
    \/ \E pos \in WinnerPoints : WinnerFrame(pos[1], pos[2])

SpecWinner == InitWinnerSpec /\ [][NextWinner]_vars

\* The program from its start to the core game: the menu, then the tutorial
\* if it was chosen.
InitMenuSpec ==
    /\ colors = 1
    /\ numbers = 1
    /\ InitDeck
    /\ IdleBoard
    /\ IdleSetup
    /\ InitMenu

NextMenu ==
    \/ \E batch \in Batches : MenuFrame(batch)
    \/ MainChoice
    \/ \E batch \in Batches : TutorialFrame(batch)

SpecMenu == InitMenuSpec /\ [][NextMenu]_vars

\* The movement animation: calls of move and frames in any order.
InitVisualSpec ==
    /\ colors = 1
    /\ numbers = 1
    /\ InitDeck
    /\ IdleBoard
    /\ IdleSetup
    /\ InitVisual

NextVisual ==
    \/ \E x \in Grid, y \in Grid : Move(x, y)
    \/ DrawFrame

SpecVisual == InitVisualSpec /\ [][NextVisual]_vars

\* The main loop draws every frame: a frame that would move the element is
\* not put off for ever.
SpecVisualFair == SpecVisual /\ WF_vars(DrawFrame)

\* A game in progress: requests of any kind by any player, in any order.
NextGame ==
    \/ \E req \in Requests(TheGameState) : ApplyAction(req)
    \/ ShowWinner

SpecGame == InitGame /\ [][NextGame]_vars

\* The selector dialogs: a PlayerNameSelector of get_players or a
\* CardsSelector is open.
InitSelectors == InitPlayersSpec \/ InitCardsSpec

NextSelectors ==
    \/ selector.kind = "names" /\ NextPlayers
    \/ selector.kind = "cards" /\ NextCards

SpecSelectors == InitSelectors /\ [][NextSelectors]_vars

\* A single button: toggle_selection called with any counts.
InitToggleSpec ==
    /\ colors = 1
    /\ numbers = 1
    /\ InitDeck
    /\ IdleBoard
    /\ IdleSetup
    /\ InitToggle

NextToggle == \E count \in 0..(MaxSel + 1) : Toggle(count)

SpecToggle == InitToggleSpec /\ [][NextToggle]_vars

\* The deck shuffled, drawn from, and given back what was just drawn.
NextReturn ==
    \/ DoShuffle /\ UNCHANGED <<discard, boardVars, setupVars, uiVars>>
    \/ \E p \in Players :
          DrawCard(p) /\ UNCHANGED <<discard, boardVars, setupVars, uiVars>>
    \/ \E count \in 0..MaxCount :
          ReturnDrawn(count)
              /\ UNCHANGED <<discard, boardVars, setupVars, uiVars>>

SpecReturn == Init /\ [][NextReturn]_vars

\* ------------------------------------------------------------------------
\* Properties of the deck.

\* The cards of the list cs from the top down: its last k elements, last first.
TopCards(cs, k) == Reverse(SubSeq(cs, Len(cs) - k + 1, Len(cs)))

\* The cards the hands gave away in a step.
Returned == HandsBag(hands) (-) HandsBag(hands')

\* C1: card conservation.  In every reachable state the cards of the deck
\* list (the code keeps no other pile: returned cards go back into it) and of
\* all the hands number deck_total_size, and together they are exactly
\* NUM_DUPLICATES copies of every card: none is duplicated, none is lost.
C1_Conservation ==
    /\ Len(cards) + BagCardinality(HandsBag(hands)) = deck_total_size
    /\ SeqToBag(cards) (+) HandsBag(hands) = FullBag

\* C1 witness: cards have been drawn by both hands and one has given cards
\* back, so that deck and both hands hold cards.
C1_Witness ==
    /\ last.op \in {"add_card", "add_cards"}
    /\ last.n > 0
    /\ Len(cards) > 0
    /\ \A p \in Players : BagCardinality(hands[p]) > 0

\* C2: draw_cards(n) never raises; it returns at most n cards, fewer than n
\* only when the deck is left empty, and the deck shrinks by exactly the number
\* of cards returned.
C2_DrawCardsGraceful ==
    [][last'.op = "draw_cards" =>
          /\ ~last'.raised
          /\ Len(last'.moved) <= (IF last'.n < 0 THEN 0 ELSE last'.n)
          /\ (Len(last'.moved) < last'.n => cards' = <<>>)
          /\ Len(cards') = Len(cards) - Len(last'.moved)]_vars

\* C2 witness: a draw_cards call that asked for more cards than the deck held
\* and returned the ones it had.
C2_Witness ==
    /\ last.op = "draw_cards"
    /\ Len(last.moved) > 0
    /\ Len(last.moved) < last.n
    /\ cards = <<>>

C5_FreshDeck ==
    last.op = "init" =>
        /\ SeqToBag(cards) = FullBag
        /\ Len(cards) = NUM_DUPLICATES * Cardinality(AllCards)
        /\ hands = [p \in Players |-> EmptyBag]
        /\ Len(initial_cards(NumColors, NumNumbers)) = 90
        /\ LET created == initial_cards(NumColors, NumNumbers)
           IN \A card \in (1..NumColors) \X (1..NumNumbers) :
                 Cardinality({i \in 1..Len(created) : created[i] = card})
                    = NUM_DUPLICATES

\* C5 witness: a fresh deck of more than one combination whose order is not
\* the order of creation.
C5_Witness ==
    /\ last.op = "init"
    /\ Cardinality(AllCards) > 1
    /\ cards # initial_cards(colors, numbers)

\* C6: drawing takes from the end of the list.  draw_card returns the last
\* element and leaves the prefix as it was; draw_cards(k) returns the last
\* cards of the list, the last element first, and leaves the prefix.
C6_DrawFromTop ==
    [][/\ (last'.op = "draw_card" /\ ~last'.raised) =>
             /\ last'.moved = <<cards[Len(cards)]>>
             /\ cards' = SubSeq(cards, 1, Len(cards) - 1)
       /\ last'.op = "draw_cards" =>
             LET k == Min(IF last'.n < 0 THEN 0 ELSE last'.n, Len(cards))
             IN /\ last'.moved = TopCards(cards, k)
                /\ cards' = SubSeq(cards, 1, Len(cards) - k)]_vars

\* C6 witness: draw_cards returned two different cards and left cards behind.
C6_Witness ==
    /\ last.op = "draw_cards"
    /\ Len(last.moved) >= 2
    /\ last.moved[1] # last.moved[2]
    /\ Len(cards) > 0

\* C7: draw_card on an empty deck raises ValueError and leaves the deck empty
\* (and gives no card); on a deck with cards it does not raise and takes
\* exactly one card.
C7_DrawCardEmpty ==
    [][last'.op = "draw_card" =>
          IF cards = <<>>
          THEN last'.raised /\ cards' = <<>> /\ hands' = hands
          ELSE /\ ~last'.raised
               /\ Len(cards') = Len(cards) - 1
               /\ Len(last'.moved) = 1]_vars

\* C7 witness: a draw_card call on an empty deck that raised.
C7_Witness ==
    /\ last.op = "draw_card"
    /\ last.raised
    /\ cards = <<>>

\* The exhaustion scenario has happened: draw_cards(3) was called on a deck
\* of 1 + 5 cards, 5 of them returned by the hands since the last draw.
ExhaustionCase ==
    /\ last.op = "draw_cards"
    /\ last.n = 3
    /\ discard = 5
    /\ Len(cards) + Len(last.moved) = 1 + 5

\* C4 as stated: with the draw pile at 1 card and 5 discarded cards,
\* draw_cards(3) returns 6 cards and leaves nothing.
C4_DrainsBothPiles ==
    ExhaustionCase => (Len(last.moved) = 1 + 5 /\ cards = <<>>)

\* C4 amended: the deck is one list, the 5 returned cards have joined the 1
\* card in it, and draw_cards(3) on these 6 cards returns exactly 3 cards and
\* leaves 3 cards in the deck.
C4_DrawsThree ==
    ExhaustionCase => (Len(last.moved) = 3 /\ Len(cards) = 3)

\* C4 witness: the scenario has happened, and the hand that drew holds the 3
\* cards.
C4_Witness ==
    /\ ExhaustionCase
    /\ \E p \in Players : hands[p] = SeqToBag(last.moved)

\* ------------------------------------------------------------------------
\* Properties of the action board.

\* The last click was on a button, and no button under it was enabled.
ClickedDisabled ==
    /\ click.op = "handle_click"
    /\ click.hit # {}
    /\ \A b \in click.hit : ~enabled[b]

\* C8: handle_click gives do_action only the action of a button that is
\* enabled and under the click; a click on a disabled button or outside all
\* buttons gives it nothing and leaves the game as it was.
C8_OnlyEnabledAndHit ==
    [][click'.op = "handle_click" =>
          /\ \A k \in 1..Len(click'.dispatched) :
                /\ click'.dispatched[k].button \in click'.hit
                /\ enabled[click'.dispatched[k].button]
                /\ click'.dispatched[k].action
                      = actions[click'.dispatched[k].button]
          /\ (\A b \in click'.hit : ~enabled[b]) =>
                /\ click'.dispatched = <<>>
                /\ UNCHANGED gameVars]_vars

\* C8 witness: on a board with enabled buttons, a click on a disabled button
\* has given do_action nothing.
C8_Witness ==
    /\ ClickedDisabled
    /\ click.dispatched = <<>>
    /\ \E b \in Buttons : enabled[b]

C10_LegalWhenDispatched ==
    click.op = "handle_click" =>
        \A k \in 1..Len(click.dispatched) : click.dispatched[k].legal

\* C11: after update_button_states the Play for Me button is enabled exactly
\* when the current player is human, no button is enabled when the current
\* player is a computer player, and every other button is enabled exactly
\* when it is the human's turn and its action is possible.
C11_ButtonStates ==
    click.op = "draw" =>
        \A b \in Buttons :
            /\ ~is_human_turn(TheGame) => ~enabled[b]
            /\ actions[b] = PLAY_FOR_ME =>
                  (enabled[b] <=> is_human_turn(TheGame))
            /\ actions[b] # PLAY_FOR_ME =>
                  (enabled[b] <=> (/\ is_human_turn(TheGame)
                                   /\ action_is_possible(TheGame, actions[b])))

\* C11 witness: the board was redrawn on the human's turn after a computer
\* player's turn; Play for Me is enabled, the button of an action that is
\* possible is enabled and the button of one that is not is disabled.
C11_Witness ==
    /\ click.op = "draw"
    /\ is_human_turn(TheGame)
    /\ num_players = 3
    /\ \E b \in Buttons : actions[b] = PLAY_FOR_ME /\ enabled[b]
    /\ \E b \in Buttons : actions[b] = STEAL /\ enabled[b]
    /\ \E b \in Buttons : actions[b] = DISCARD_GROUP /\ ~enabled[b]

C15_AllActions ==
    click.op = "handle_click" =>
        /\ \A k \in 1..Len(click.dispatched) :
              click.dispatched[k].action \in get_all_actions
        /\ \A b \in click.hit : actions[b] \in get_all_actions

\* ------------------------------------------------------------------------
\* Properties of the game's setup.

\* The deal of the scenario has happened: three players, one of them human,
\* a hand size of 7, the full deck of 90 cards.
DealCase ==
    /\ last.op = "deal"
    /\ colors = NumColors
    /\ numbers = NumNumbers
    /\ Len(initial_cards(colors, numbers)) = 90
    /\ INITIAL_HAND_SIZE = 7
    /\ Len(players) = 3
    /\ Cardinality({i \in 1..3 : players[i].is_human}) = 1

\* C16: after the deal of a new game with one human and two computer
\* players, a hand size of 7 and the deck of 90 cards, every hand holds
\* exactly 7 cards, the deck holds 90 - 21 = 69 and no card has been
\* discarded.
C16_Deal ==
    DealCase =>
        /\ \A name \in PlayerNames(players) :
              BagCardinality(hands[name]) = 7
        /\ Len(cards) = 69
        /\ discard = 0

\* C16 witness: the deal of the scenario has happened with the players of
\* main.py in their order, one human and two computer players.
C16_Witness ==
    /\ DealCase
    /\ players = main_get_players
    /\ state = "InProgress"
    /\ \A name \in PlayerNames(players) : hands[name] # EmptyBag

C13_OneHuman ==
    pc = "done" =>
        /\ Len(players) \in {2, 3}
        /\ players[1].is_human
        /\ players[1].name = selected_player
        /\ \A i \in 2..Len(players) : ~players[i].is_human
        /\ \A i, j \in 1..Len(players) :
              i # j => players[i].name # players[j].name

\* C13 witness: get_players has returned a human who is not the first name
\* of the list and two opponents, chosen by clicks and confirmed with ENTER.
C13_Witness ==
    /\ pc = "done"
    /\ Len(players) = 3
    /\ players[1].name # get_all_player_names[1]
    /\ event.type = "KEYDOWN"
    /\ event.key = "K_RETURN"

\* C14: the Submit button of a CardsSelector is enabled exactly when the
\* selection is not empty and validation_func accepts it, and show returns
\* only a selection that is not empty, is made of the offered cards and is
\* accepted by validation_func; an empty selection is not returned even when
\* validation_func accepts it.
C14_ValidGroup ==
    selector.kind = "cards" =>
        /\ selector.submit_button.enabled
              <=> (/\ _get_selected_items(selector) # <<>>
                   /\ _get_selected_items(selector)
                         \in selector.validation_func.accepts)
        /\ result.kind \in {"none", "list", "SystemExit"}
        /\ result.kind = "list" =>
              /\ result.items # <<>>
              /\ result.items \in Sublists(selector.items)
              /\ result.items \in selector.validation_func.accepts

\* C14 witness: a click on Submit has returned two selected cards, under a
\* validation function that would also accept the empty selection.
C14_Witness ==
    /\ selector.kind = "cards"
    /\ result.kind = "list"
    /\ Len(result.items) = 2
    /\ <<>> \in selector.validation_func.accepts
    /\ 0 \in event.hit

\* ------------------------------------------------------------------------
\* Properties of the dialogs.

\* The last event was a click inside a rectangle.
ClickIn(rect) ==
    /\ event.type = "MOUSEBUTTONDOWN"
    /\ collidepoint(rect, event.pos[1], event.pos[2])

\* C18: WinnerDisplay.show returns "new_game" or "quit" and nothing else: a
\* click inside the Start New Game button returns "new_game", a click inside
\* the Quit button or a window-close event returns "quit", any other event
\* returns nothing and leaves the dialog open; the two buttons do not
\* overlap, so no click is inside both.
C18_NewGameOrQuit ==
    dialog.kind = "winner" =>
        /\ result \in {Running, ReturnedStr("new_game"), ReturnedStr("quit")}
        /\ result = ReturnedStr("new_game")
              <=> ClickIn(dialog.new_game_button_rect)
        /\ result = ReturnedStr("quit")
              <=> (event.type = "QUIT" \/ ClickIn(dialog.quit_button_rect))
        /\ ~(/\ ClickIn(dialog.new_game_button_rect)
             /\ ClickIn(dialog.quit_button_rect))
        /\ \/ dialog.new_game_button_rect.y + dialog.new_game_button_rect.height
                 <= dialog.quit_button_rect.y
           \/ dialog.quit_button_rect.y + dialog.quit_button_rect.height
                 <= dialog.new_game_button_rect.y

\* C18 witness: after events that returned nothing, a click on the last
\* point inside the Quit button has returned "quit".
C18_Witness ==
    /\ dialog.kind = "winner"
    /\ result = ReturnedStr("quit")
    /\ dialog.quit_hovered
    /\ event = MOUSEBUTTONDOWN(
          dialog.quit_button_rect.x + dialog.quit_button_rect.width - 1,
          dialog.quit_button_rect.y + dialog.quit_button_rect.height - 1)

\* ------------------------------------------------------------------------
\* Properties of the movement animation.

\* What a frame does to the element: it stays on the line to its target,
\* goes no further than ANIMATION_SPEED and not past the target, comes
\* closer unless it is there, and stays if it is there.
FrameStep ==
    LET dx == visual.target_x - visual.x
        dy == visual.target_y - visual.y
        sx == visual'.x - visual.x
        sy == visual'.y - visual.y
    IN /\ sx * sx + sy * sy <= ANIMATION_SPEED * ANIMATION_SPEED
       /\ sx * dy = sy * dx
       /\ 0 <= sx * dx /\ Abs(sx) <= Abs(dx)
       /\ 0 <= sy * dy /\ Abs(sy) <= Abs(dy)
       /\ AtTarget(visual) => visual' = visual
       /\ ~AtTarget(visual) => sx # 0 \/ sy # 0

\* No move on the grid is longer than MaxFrames frames.
MaxFrames == (2 * GridMax) \div ANIMATION_SPEED + 1

HandEmpty(name) == BagCardinality(hands[name]) = 0

\* C20: once a player's hand is empty after a mutating action the game is
\* Finished with that player, and nobody else, reported as the winner: the
\* game is Finished exactly when a hand is empty, the winner is the one
\* player whose hand is, and the dialog names that player; from then on no
\* action request changes the game.
C20_WinIsTerminal ==
    /\ [](state = "Finished" <=> \E name \in PlayerNames(players) :
                                    HandEmpty(name))
    /\ [](state = "Finished" =>
             /\ winner \in PlayerNames(players)
             /\ \A name \in PlayerNames(players) :
                   HandEmpty(name) <=> name = winner)
    /\ [](state # "Finished" => winner = "None" /\ dialog.kind = "none")
    /\ [](dialog.kind = "winner" => dialog.winner_name = winner)
    /\ [][state = "Finished" =>
             /\ UNCHANGED <<players, cards, hands, discard_area>>
             /\ UNCHANGED <<current_player_index, state, winner>>]_vars

\* C20 witness: a game was won by a player whose turn it was not, the winner
\* is shown, and a request made after that was turned down.
C20_Witness ==
    /\ state = "Finished"
    /\ Len(players) = 3
    /\ winner # players[current_player_index + 1].name
    /\ dialog.kind = "winner"
    /\ result = Rejection("GameAlreadyFinished")

\* ------------------------------------------------------------------------
\* Properties of the turn.

NextSeat == (current_player_index + 1) % num_players

SelectedCount == Len(selected_items(selector.buttons))

\* The last click was on buttons none of which was selected.
ClickedUnselected ==
    /\ event'.type = "MOUSEBUTTONDOWN"
    /\ event'.hit \cap DOMAIN selector.buttons # {}
    /\ \A i \in event'.hit \cap DOMAIN selector.buttons :
          ~selector.buttons[i].selected

\* C22: in a selector dialog, after any clicks from no selection on, no more
\* than max_selections buttons are selected; a toggle of an unselected button
\* when the count equals max_selections leaves the selected flag of every
\* button as it was.
C22_MaxSelections ==
    /\ [](SelectedCount <= selector.max_selections)
    /\ [](\A i \in DOMAIN selector.buttons :
             ~selector.buttons[i].selected
                 => toggle_selection(selector.buttons[i],
                                     selector.max_selections,
                                     selector.max_selections)
                       = selector.buttons[i])
    /\ [][ClickedUnselected /\ SelectedCount = selector.max_selections
             => /\ DOMAIN selector'.buttons = DOMAIN selector.buttons
                /\ \A i \in DOMAIN selector.buttons :
                      selector'.buttons[i].selected
                          = selector.buttons[i].selected]_vars

\* C22 witness: two opponents are selected, which is max_selections, and the
\* last click was on the third name, which is not selected.
C22_Witness ==
    /\ selector.kind = "names"
    /\ pc = "choose_opponents"
    /\ SelectedCount = selector.max_selections
    /\ event.type = "MOUSEBUTTONDOWN"
    /\ \E i \in event.hit : ~selector.buttons[i].selected
    /\ result = Running

\* The last two calls of toggle_selection were given counts below
\* max_selections.
TwiceBelow ==
    LET n == Len(event.calls)
    IN /\ n >= 2
       /\ event.calls[n - 1].count < selector.max_selections
       /\ event.calls[n].count < selector.max_selections

\* C23: toggle_selection unselects a selected button whatever the count and
\* max_selections are; two toggles of a selectable button with counts below
\* max_selections leave the button as it was before them; on a button that
\* is not selectable toggle_selection changes nothing.
C23_Toggle ==
    /\ [][selector.button.selected => ~selector'.button.selected]_vars
    /\ [](selector.button.selectable /\ TwiceBelow
             => selector.button = event.calls[Len(event.calls) - 1].button)
    /\ [][~selector.button.selectable
             => selector'.button = selector.button]_vars

\* C23 witness: two calls below max_selections selected the button and
\* unselected it again, a third selected it, and a call whose count was not
\* below max_selections unselected it.
C23_Witness ==
    /\ selector.kind = "button"
    /\ Len(event.calls) = 4
    /\ event.calls[1].count < selector.max_selections
    /\ event.calls[2].count < selector.max_selections
    /\ event.calls[3].button = event.calls[1].button
    /\ event.calls[4].button.selected
    /\ event.calls[4].count >= selector.max_selections
    /\ ~selector.button.selected

\* The last event handled is ENTER.
Enter(ev) == ev.type = "KEYDOWN" /\ ev.key = "K_RETURN"

\* The item of the first of the buttons a click was on.
FirstHit(sel, hit) ==
    sel.buttons[CHOOSE i \in hit : \A j \in hit : i <= j].item

\* What a step in which PlayerNameSelector.show returns has to look like.
ShowReturns ==
    IF selector.needs_submit
    THEN /\ Enter(event')
         /\ result' = ReturnedList(_get_selected_items(selector))
         /\ Len(result'.items) >= selector.min_selections
         /\ Len(result'.items) <= selector.max_selections
         /\ selector' = selector
    ELSE /\ event'.type = "MOUSEBUTTONDOWN"
         /\ event'.hit # {}
         /\ \A i \in event'.hit : selector.buttons[i].enabled
         /\ result' = ReturnedItem(FirstHit(selector, event'.hit))
         /\ \E k \in 1..Len(selector.items) : selector.items[k] = result'.item

\* C24: with max_selections > 1 PlayerNameSelector.show returns only when
\* ENTER is pressed, and then a selection of min_selections to max_selections
\* names; ENTER with fewer names selected returns nothing and leaves the
\* selection as it is.  With max_selections = 1 show returns the item of the
\* first enabled button a click is on, one of the available names.
C24_ShowReturns ==
    /\ [][result' # result /\ result'.kind \in {"item", "list"}
             => ShowReturns]_vars
    /\ [][/\ selector.needs_submit
          /\ Enter(event')
          /\ Len(_get_selected_items(selector)) < selector.min_selections
          => /\ result'.kind \notin {"item", "list"}
             /\ pc' = pc
             /\ _get_selected_items(selector')
                   = _get_selected_items(selector)]_vars
    /\ [](pc = "done" => result.kind = "list" /\ Enter(event))

\* C24 witness: the human and then two opponents were chosen, and ENTER has
\* returned the two names.
C24_Witness ==
    /\ pc = "done"
    /\ Enter(event)
    /\ result.kind = "list"
    /\ Len(result.items) = 2
    /\ selected_player \in PlayerNames(players)

\* ------------------------------------------------------------------------
\* Properties of a click on the action board.

\* C25: one click applies at most one action: whatever the position of the
\* click and whatever the enabled flags, handle_click calls do_action at most
\* once, because the clickable rectangles of the seven buttons, bounds
\* included and 10 pixels apart, have no point in common.  (The calls do not
\* depend on the game: they are counted for every combination of flags on
\* the new game, and for the flags the board has on every click made.)
C25_OneActionAClick ==
    /\ num_buttons = 7
    /\ button_spacing = 10
    /\ \A b1 \in Buttons, b2 \in Buttons :
          b1 < b2 => button_y(b1) + button_height < button_y(b2)
    /\ \A mouse_x \in MouseXs, mouse_y \in MouseYs :
          Cardinality({b \in Buttons : Inside(b, mouse_x, mouse_y)}) <= 1
    /\ click.op = "handle_click" =>
          /\ Len(click.dispatched) <= 1
          /\ Cardinality(click.hit) <= 1
    /\ click.op = "init" =>
          \A en \in [Buttons -> BOOLEAN],
             mouse_x \in MouseXs, mouse_y \in MouseYs :
             \A r \in handle_click_loop(TheGame, en, 1, mouse_x, mouse_y,
                                        <<>>) :
                Len(r.dispatched) <= 1

\* C25 witness: with several buttons enabled, a click on the last line of a
\* button has applied that button's action and no other.
C25_Witness ==
    /\ click.op = "handle_click"
    /\ Len(click.dispatched) = 1
    /\ \E b \in click.hit :
          /\ click.dispatched[1].button = b
          /\ \E b2 \in Buttons : b2 = b + 1 /\ enabled[b2]
    /\ Cardinality({b \in Buttons : enabled[b]}) >= 3

\* ------------------------------------------------------------------------
\* Properties of returning cards.

\* C26: giving the deck back the cards just drawn from it restores its
\* contents: after add_cards(draw_cards(n)) the deck has the size and the
\* cards, counted with their copies, it had before, whatever n is and however
\* many cards the deck held; shuffle() alone changes neither.
C26_ReturnRestores ==
    [][last'.op \in {"return_drawn", "shuffle"} =>
          /\ size(cards') = size(cards)
          /\ SeqToBag(cards') = SeqToBag(cards)
          /\ hands' = hands]_vars

\* C26 witness: a deck some of whose cards are in a hand was asked for more
\* cards than it held, gave all it had, and has been given them back in
\* another order.
C26_Witness ==
    /\ last.op = "return_drawn"
    /\ Len(last.moved) >= 2
    /\ Len(last.moved) < last.n
    /\ size(cards) = Len(last.moved)
    /\ \E i \in 1..Len(cards) : cards[i] # Reverse(last.moved)[i]
    /\ \E p \in Players : BagCardinality(hands[p]) > 0

\* ------------------------------------------------------------------------
\* Properties of the main menu.

\* The values show_main_menu may return.
MenuChoices ==
    {ReturnedStr("start"), ReturnedStr("tutorial"), ReturnedStr("settings")}

\* The last frame's events hold a left click inside the rectangle.
LeftClickIn(rect) ==
    \E i \in 1..Len(event.events) :
       /\ event.events[i].type = "MOUSEBUTTONUP"
       /\ event.events[i].button = 1
       /\ collidepoint(rect, event.events[i].pos[1], event.events[i].pos[2])

\* C27: show_main_menu returns only "start", "tutorial" or "settings": it
\* never returns None, and QUIT or a click on Quit exits the process instead
\* of returning "quit".  main then shows the tutorial exactly when "tutorial"
\* was returned, and for each of the three values it goes on to initialise
\* the core game, after the tutorial where it is shown.
C27_MenuChoice ==
    /\ [](pc \notin {"show_main_menu", "sys.exit"} => result \in MenuChoices)
    /\ [](pc = "show_main_menu" => result = Running)
    /\ [](pc = "sys.exit" =>
             /\ result = SystemExit
             /\ \/ \E i \in 1..Len(event.events) :
                      event.events[i].type = "QUIT"
                \/ \E i \in DOMAIN dialog.btn_rects :
                      /\ dialog.btn_rects[i].key = "quit"
                      /\ LeftClickIn(dialog.btn_rects[i].rect))
    /\ [](result \in MenuChoices /\ pc = "main" =>
             \E i \in DOMAIN dialog.btn_rects :
                /\ ReturnedStr(dialog.btn_rects[i].key) = result
                /\ LeftClickIn(dialog.btn_rects[i].rect))
    /\ [](\A choice \in MenuChoices :
             main_choice(choice) =
                IF choice = ReturnedStr("tutorial")
                THEN "run_tutorial_placeholder" ELSE "init_game")
    /\ [](dialog.kind = "tutorial" <=>
             /\ result = ReturnedStr("tutorial")
             /\ pc \in {"run_tutorial_placeholder", "init_game"})
    /\ [][pc = "main" =>
             pc' = (IF result = ReturnedStr("tutorial")
                    THEN "run_tutorial_placeholder" ELSE "init_game")]_vars
    /\ [][pc = "run_tutorial_placeholder" =>
             pc' \in {"run_tutorial_placeholder", "init_game"}]_vars
    /\ [][(pc \in {"init_game", "sys.exit"}) => pc' = pc]_vars

\* The tutorial was chosen by the second of two clicks of one frame, the
\* first on Start Game; the window was closed during the tutorial, and main
\* has gone on to the core game.
C27_Witness ==
    /\ pc = "init_game"
    /\ result = ReturnedStr("tutorial")
    /\ dialog.kind = "tutorial"
    /\ dialog.returned = "False"
    /\ Len(event.events) = MaxBatch

====
